---------------------------- MODULE Spec2Model ----------------------------
(***************************************************************************)
(* PlayEarOne voice-command pipeline: audio buffer, silence gate, parallel *)
(* speaker identification and transcription joined under a deadline, the  *)
(* three-stage command extractor, result assembly and the player filter.   *)
(*                                                                         *)
(* Durations are in milliseconds, amplitudes in thousandths of full scale  *)
(* and confidences in hundredths.  A transcript is a sequence of atoms:    *)
(* an atom is a run of letters or one blank, so that string equality,      *)
(* lower-casing, trimming and splitting are computed atom by atom.         *)
(***************************************************************************)
EXTENDS Integers, Sequences, FiniteSets, TLC

VARIABLES
    buffer,       \* AudioBuffer._buffer: unconsumed audio, oldest first
    streamPos,    \* number of audio quanta received so far on the connection
    nDropped,     \* quanta flushed by the backlog protection so far
    win,          \* the window most recently consumed from the buffer
    pc,           \* position of the connection's coordinator flow
    elapsed,      \* ticks since the recognition calls of win were dispatched
    identTask,    \* identification call of win: none, running, done, abandoned
    transTask,    \* transcription call of win: none, running, done, abandoned
    identRes,     \* SpeakerMatch delivered by the identification call
    transRes,     \* text delivered by the transcription call
    staleIdent,   \* abandoned identification calls still running
    staleTrans,   \* abandoned transcription calls still running
    speaker,      \* SpeakerMatch the join handed on
    transcript,   \* transcript text the join handed on
    tried,        \* extraction stages run for win, in order
    parsed,       \* ParsedCommand of win (empty until extraction ends)
    calls,        \* recognition and fallback calls made for win
    llmOutcome,   \* how the fallback call of win ended
    llmFailures,  \* fallback failures on this connection so far
    draft,        \* CommandResult assembled for win (empty until assembled)
    sent,         \* command messages sent to the client for win
    errors,       \* error messages sent to the client
    connOpen,     \* the connection is open
    faults,       \* kinds of failure that have occurred on the connection
    store,        \* the Enrollment Store: SpeakerProfiles in insertion order
    match,        \* the last identification on the store (empty if none)
    listed,       \* the last speakers_list reply (empty if none)
    ledger,       \* per name, what the store operations so far did to it
    conn,         \* per connection: open, listening, dance recording
    sessions,     \* per connection: its current or last EnrollmentSession
    flows,        \* per connection: the recognition flow of its current window
    reply,        \* per connection: the last enrollment reply sent to it
    lock,         \* the lock of the Enrollment Store: writers and readers
    dance_recording, \* the connection has a dance recording
    dance_buffers,   \* audio chunks of the dance recording
    dance_age,       \* ticks since dance_start_time
    timers,          \* pending call_later timers of start_dance
    isRecording,     \* DanceManager.isRecording of the page
    danceLog,        \* what happened to the latest dance recording
    ctx,             \* DanceManager.ctx is a drawing context (not null)
    dancePlan,       \* DanceManager.dancePlan: empty (null) or one plan
    danceStartTime,  \* DanceManager.danceStartTime
    perfNow,         \* performance.now() of the page, in seconds
    animLoops,       \* animation frame callbacks requested and not yet run
    statusText,      \* text of the dance status line
    scoreVisible,    \* the score panel is displayed
    animLog,         \* what the animation of the current plan did so far
    socket,          \* wsClient as the page sees it: connecting, open, closed
    audioContext,    \* audioCapture.audioContext exists
    capture,         \* the shared audioCapture: running, callbacks it feeds
    nameInput,       \* the speaker name field: value, disabled
    enrollBtns,      \* Start Recording and Cancel of the enrollment tab
    pendingEnroll,   \* startEnrollment calls suspended at an await
    isEnrolling,     \* EnrollmentManager.isEnrolling
    enrollmentName,  \* EnrollmentManager.enrollmentName
    enrollElapsed,   \* seconds since enrollmentStartTime, up to the duration
    progressInterval, \* EnrollmentManager.progressInterval (0: null)
    intervals,       \* interval timers set and not cleared
    repliesDue,      \* complete_enrollment messages not yet answered
    runLog,          \* what the current enrollment run has sent
    statusDiv,       \* class of the enrollment status line: none, error, success
    isListening,     \* DisplayManager.isListening
    listenBtns,      \* Start Listening and Stop Listening
    pendingListen,   \* startListening calls suspended at an await
    wireLog,         \* what the live-command path has sent
    danceBtns,       \* Start Dance and Cancel of the dance tab
    alerted,         \* the page has shown the 'Not connected' alert
    loadPhase,       \* DOMContentLoaded dispatch: loading, document, ready
    onMessage,       \* wsClient.onMessage: the handlers it calls, in call order
    handledBy,       \* the handlers that handled the last message, in order
    commandLog,      \* child nodes of the command log, first child first
    commandCount,    \* DisplayManager.commandCount
    activeSpeakers,  \* DisplayManager.activeSpeakers
    received,        \* command messages displayed so far: all, with a command
    pose,            \* the pose drawn last and its time (empty if none)
    score            \* Creativity and Energy as displayed (empty if none)

pipeVars == <<buffer, streamPos, nDropped, win, pc, elapsed, identTask, transTask,
          identRes, transRes, staleIdent, staleTrans, speaker,
          transcript, tried, parsed, calls, llmOutcome, llmFailures, draft,
          sent, errors, connOpen, faults>>

storeVars == <<store, match, listed, ledger>>

sessionVars == <<conn, sessions, flows, reply, lock>>

serverVars == <<storeVars, sessionVars>>

danceVars == <<dance_recording, dance_buffers, dance_age, timers, isRecording,
               danceLog>>

animVars == <<ctx, dancePlan, danceStartTime, perfNow, animLoops, statusText,
              scoreVisible, animLog>>

captureVars == <<socket, audioContext, capture>>

enrollPageVars == <<nameInput, enrollBtns, pendingEnroll, isEnrolling,
                    enrollmentName, enrollElapsed, progressInterval, intervals,
                    repliesDue, runLog, statusDiv>>

listenPageVars == <<isListening, listenBtns, pendingListen, wireLog>>

clientVars == <<captureVars, enrollPageVars, listenPageVars>>

pageVars == <<danceVars, animVars, clientVars>>

dancePageVars == <<danceBtns, alerted>>

displayVars == <<loadPhase, onMessage, handledBy, commandLog, commandCount,
                 activeSpeakers, received>>

canvasVars == <<pose, score>>

vars == <<pipeVars, serverVars, pageVars, dancePageVars, displayVars, canvasVars>>

---------------------------------------------------------------------------
(* Bounds of the model *)

MaxLen == 4            \* longest transcript, in atoms
MaxChunkQuanta == 5    \* longest audio chunk, in quanta
MaxStream == 9         \* quanta received on the connection
JoinDeadlineTicks == 2 \* the join deadline, in ticks

---------------------------------------------------------------------------
(* Transcript text *)

Atoms == {"up", "UP", "down", "dawn", "y", "x", " "}

AllTexts == UNION {[1..n -> Atoms] : n \in 0..MaxLen}

IsSpace(a) == a = " "

ToLower(a) == IF a = "UP" THEN "up" ELSE a

Lower(s) == [i \in 1..Len(s) |-> ToLower(s[i])]

RECURSIVE LStrip(_)
LStrip(s) == IF s # <<>> /\ IsSpace(Head(s)) THEN LStrip(Tail(s)) ELSE s

RECURSIVE RStrip(_)
RStrip(s) ==
    IF s # <<>> /\ IsSpace(s[Len(s)]) THEN RStrip(SubSeq(s, 1, Len(s) - 1)) ELSE s

Strip(s) == RStrip(LStrip(s))

RECURSIVE SplitFrom(_, _, _)
SplitFrom(s, cur, acc) ==
    IF s = <<>>
    THEN IF cur = <<>> THEN acc ELSE Append(acc, cur)
    ELSE IF IsSpace(Head(s))
         THEN SplitFrom(Tail(s), <<>>, IF cur = <<>> THEN acc ELSE Append(acc, cur))
         ELSE SplitFrom(Tail(s), Append(cur, Head(s)), acc)

Split(s) == SplitFrom(s, <<>>, <<>>)

---------------------------------------------------------------------------
(* Command extraction, stages 1 and 2 *)

None == "none"

VALID_COMMANDS == {"up", "down"}

Spell(c) == <<c>>

phonetic_map == (<<"y", "up">> :> "up") @@ (<<"dawn">> :> "down")

CONF_DIRECT == 95
CONF_PHONETIC == 85
CONF_WORD_DIRECT == 80
CONF_WORD_PHONETIC == 75

ParsedCommand(c, raw, conf, st) ==
    [command |-> c, raw_text |-> raw, confidence |-> conf, stage |-> st]

InVocab(w) == \E c \in VALID_COMMANDS : Spell(c) = w

CmdOf(w) == CHOOSE c \in VALID_COMMANDS : Spell(c) = w

TextLower(text) == Lower(Strip(text))

\* Fault variant of Stage1: the text is compared without lower-casing.
Stage1CaseSensitive(text) ==
    IF InVocab(Strip(text))
    THEN ParsedCommand(CmdOf(Strip(text)), text, CONF_DIRECT, 1)
    ELSE ParsedCommand(None, text, 0, 1)

Stage1(text) ==
    IF InVocab(TextLower(text))
    THEN ParsedCommand(CmdOf(TextLower(text)), text, CONF_DIRECT, 1)
    ELSE ParsedCommand(None, text, 0, 1)

\* Fault variant of ScanWords: every word is tried against the vocabulary
\* before any word is tried against the phonetic map.
RECURSIVE ScanAliasOnly(_, _)
ScanAliasOnly(words, text) ==
    IF words = <<>>
    THEN ParsedCommand(None, text, 0, 2)
    ELSE IF Head(words) \in DOMAIN phonetic_map
         THEN ParsedCommand(phonetic_map[Head(words)], text, CONF_WORD_PHONETIC, 2)
         ELSE ScanAliasOnly(Tail(words), text)

ScanWordsVocabFirst(words, text) ==
    LET direct == SelectSeq(words, InVocab)
    IN IF direct # <<>>
       THEN ParsedCommand(CmdOf(Head(direct)), text, CONF_WORD_DIRECT, 2)
       ELSE ScanAliasOnly(words, text)

RECURSIVE ScanWords(_, _)
ScanWords(words, text) ==
    IF words = <<>>
    THEN ParsedCommand(None, text, 0, 2)
    ELSE IF InVocab(Head(words))
         THEN ParsedCommand(CmdOf(Head(words)), text, CONF_WORD_DIRECT, 2)
         ELSE IF Head(words) \in DOMAIN phonetic_map
              THEN ParsedCommand(phonetic_map[Head(words)], text, CONF_WORD_PHONETIC, 2)
              ELSE ScanWords(Tail(words), text)

\* Fault variant of Stage2: only the whole text is looked up, the words are
\* not scanned.
Stage2NoScan(text) ==
    IF TextLower(text) \in DOMAIN phonetic_map
    THEN ParsedCommand(phonetic_map[TextLower(text)], text, CONF_PHONETIC, 2)
    ELSE ParsedCommand(None, text, 0, 2)

Stage2(text) ==
    IF TextLower(text) \in DOMAIN phonetic_map
    THEN ParsedCommand(phonetic_map[TextLower(text)], text, CONF_PHONETIC, 2)
    ELSE ScanWords(Split(TextLower(text)), text)

---------------------------------------------------------------------------
(* Audio buffer and silence gate *)

CHUNK_DURATION_MS == 500
MAX_BUFFER_MS == 1000
SILENCE_RMS == 10

Quantum == CHUNK_DURATION_MS \div 2

Levels == {0, SILENCE_RMS}

Duration(b) == Len(b) * Quantum

Ready(b) == Duration(b) >= CHUNK_DURATION_MS

Consume(b) == SubSeq(b, 1, CHUNK_DURATION_MS \div Quantum)

AfterConsume(b) == SubSeq(b, CHUNK_DURATION_MS \div Quantum + 1, Len(b))

\* Fault variant of Flush: the backlog is never flushed.
FlushNothing(b) == b

Flush(b) ==
    IF Duration(b) > MAX_BUFFER_MS
    THEN SubSeq(b, Len(b) - MAX_BUFFER_MS \div Quantum + 1, Len(b))
    ELSE b

RECURSIVE SumSquares(_)
SumSquares(w) ==
    IF w = <<>> THEN 0 ELSE Head(w).level * Head(w).level + SumSquares(Tail(w))

Rms(w) ==
    CHOOSE r \in 0..SILENCE_RMS :
        /\ r * r * Len(w) <= SumSquares(w)
        /\ r = SILENCE_RMS \/ (r + 1) * (r + 1) * Len(w) > SumSquares(w)

\* Fault variant of IsSilent: the gate looks at the peak, not at the RMS.
IsSilentPeak(w) == \A i \in 1..Len(w) : w[i].level < SILENCE_RMS

IsSilent(w) == SumSquares(w) < SILENCE_RMS * SILENCE_RMS * Len(w)

---------------------------------------------------------------------------
(* Recognition results *)

UnknownMatch == [name |-> "unknown", confidence |-> 0]

SIMILARITY_EXAMPLE == 55

SpeakerMatches ==
    {UnknownMatch} \cup
    {[name |-> n, confidence |-> SIMILARITY_EXAMPLE] : n \in {"Jalen", "UP", "Maya"}}

Utterances ==
    {<<>>, <<"up">>, <<" ", "UP">>, <<"y", "up", " ", "down">>, <<"x">>}

LLMAnswers ==
    {[command |-> None, confidence |-> 0]} \cup
    {[command |-> c, confidence |-> 90] : c \in VALID_COMMANDS}

NoCalls == [ident |-> 0, trans |-> 0, llm |-> 0]

---------------------------------------------------------------------------
(* Result assembly and player filter *)

PLAYER_ASSIGNMENTS == ("Jalen" :> 1) @@ ("UP" :> 2)

CommandResult(m, p, w) ==
    [timestamp |-> Head(w).idx,
     speaker |-> m.name,
     speaker_confidence |-> m.confidence,
     command |-> p.command,
     raw_text |-> p.raw_text,
     command_confidence |-> p.confidence,
     volume |-> Rms(w)]

\* Fault variant of Route: an unassigned speaker is forwarded with player 0.
RouteForwardAll(result) ==
    <<[type |-> "command",
       player |-> IF result.speaker \in DOMAIN PLAYER_ASSIGNMENTS
                  THEN PLAYER_ASSIGNMENTS[result.speaker] ELSE 0]
        @@ result>>

\* Fault variant of Route: the message of an assigned speaker is sent twice.
RouteTwice(result) ==
    IF result.speaker \in DOMAIN PLAYER_ASSIGNMENTS
    THEN <<[type |-> "command", player |-> PLAYER_ASSIGNMENTS[result.speaker]]
             @@ result,
           [type |-> "command", player |-> PLAYER_ASSIGNMENTS[result.speaker]]
             @@ result>>
    ELSE <<>>

Route(result) ==
    IF result.speaker \in DOMAIN PLAYER_ASSIGNMENTS
    THEN <<[type |-> "command", player |-> PLAYER_ASSIGNMENTS[result.speaker]]
             @@ result>>
    ELSE <<>>

Finish(p) ==
    /\ parsed' = <<p>>
    /\ draft' = <<CommandResult(speaker, p, win)>>
    /\ sent' = Route(CommandResult(speaker, p, win))
    /\ pc' = "idle"

---------------------------------------------------------------------------
(* Speaker store and matching.  An embedding is a vector of integers of    *)
(* squared length NormSq, that is a unit vector scaled; the dot product of *)
(* two embeddings, in hundredths of NormSq, is their cosine similarity.    *)

SPEAKER_SIMILARITY_THRESHOLD == 30
SPEAKER_GAME_THRESHOLD == 15

Modes == {"general", "game"}

Threshold(mode) ==
    IF mode = "game" THEN SPEAKER_GAME_THRESHOLD ELSE SPEAKER_SIMILARITY_THRESHOLD

RECURSIVE Dot(_, _)
Dot(a, b) ==
    IF a = <<>> THEN 0 ELSE Head(a) * Head(b) + Dot(Tail(a), Tail(b))

Probe == <<3, 3, 1, 1, 0>>

NormSq == Dot(Probe, Probe)

\* Similarities to Probe: 100, 80, 80, 30, 30, 20, 15.
Voices ==
    {Probe, <<3, 1, 3, 1, 0>>, <<1, 3, 1, 3, 0>>, <<2, 0, 0, 0, 4>>,
     <<0, 2, 0, 0, 4>>, <<1, 1, -1, -1, 4>>, <<1, -1, 3, 0, 3>>}

Queries == {Probe, <<3, 1, 3, 1, 0>>}

Similarity(a, b) == (Dot(a, b) * 100) \div NormSq

Names == {"Jalen", "UP", "Maya"}

SpeakerProfile(n, e) == [name |-> n, embedding |-> e]

StoreNames(st) == [i \in 1..Len(st) |-> st[i].name]

Enrolled(st) == {st[i].name : i \in 1..Len(st)}

NoBest == [name |-> "unknown", score |-> -101]

\* Fault variant of BestFrom: of two equal similarities the later one wins.
RECURSIVE BestFromLast(_, _, _, _)
BestFromLast(st, emb, i, best) ==
    IF i > Len(st) THEN best
    ELSE LET sim == Similarity(emb, st[i].embedding)
         IN BestFromLast(st, emb, i + 1,
                         IF sim >= best.score
                         THEN [name |-> st[i].name, score |-> sim] ELSE best)

RECURSIVE BestFrom(_, _, _, _)
BestFrom(st, emb, i, best) ==
    IF i > Len(st) THEN best
    ELSE LET sim == Similarity(emb, st[i].embedding)
         IN BestFrom(st, emb, i + 1,
                     IF sim > best.score
                     THEN [name |-> st[i].name, score |-> sim] ELSE best)

\* Fault variant of Identify: a similarity equal to the threshold is accepted.
IdentifyInclusive(st, emb, mode) ==
    LET best == BestFrom(st, emb, 1, NoBest)
    IN IF best.score >= Threshold(mode)
       THEN [name |-> best.name, confidence |-> best.score]
       ELSE UnknownMatch

Identify(st, emb, mode) ==
    LET best == BestFrom(st, emb, 1, NoBest)
    IN IF best.score > Threshold(mode)
       THEN [name |-> best.name, confidence |-> best.score]
       ELSE UnknownMatch

\* Fault variant of CommitProfile: the profile is appended whether or not the
\* name is enrolled.
CommitAppend(st, n, e) == Append(st, SpeakerProfile(n, e))

CommitProfile(st, n, e) ==
    IF n \in Enrolled(st)
    THEN [i \in 1..Len(st) |->
            IF st[i].name = n THEN SpeakerProfile(n, e) ELSE st[i]]
    ELSE Append(st, SpeakerProfile(n, e))

\* Fault variant of RemoveProfile: the profile stays in the store.
RemoveNothing(st, n) == st

RemoveProfile(st, n) == SelectSeq(st, LAMBDA p : p.name # n)

Conns == {"A", "B"}

NoSession == [state |-> "Idle", name |-> None, audio |-> 0, start |-> 0]

NoFlow == [phase |-> "idle", emitted |-> FALSE, interrupted |-> FALSE]

NoMessage == [type |-> None]

FreeLock == [writers |-> {}, readers |-> {}]

ServerStart ==
    /\ store = <<>>
    /\ match = <<>>
    /\ listed = <<>>
    /\ ledger = [n \in Names |-> "absent"]
    /\ conn = [c \in Conns |-> [open |-> TRUE, listening |-> FALSE, dancing |-> FALSE]]
    /\ sessions = [c \in Conns |-> NoSession]
    /\ flows = [c \in Conns |-> NoFlow]
    /\ reply = [c \in Conns |-> NoMessage]
    /\ lock = FreeLock

---------------------------------------------------------------------------
(* Dance recording: the start_dance and cancel_dance handlers, the audio   *)
(* handler's dance branch and _process_dance of one connection, driven by  *)
(* the DanceManager of the page.  Time is counted in ticks; the server's   *)
(* dance_start_time is kept as the age of the recording.  A control        *)
(* message and the reply to it are delivered within the step that sends    *)
(* them.  dance_buffers is the empty sequence when the connection has no   *)
(* entry: the handlers only ever test it for emptiness or append to an     *)
(* entry that start_dance has created.                                     *)

TicksPerSecond == 2
dance_expected_duration == 30
DanceTicks == dance_expected_duration * TicksPerSecond
MaxRecordings == 2     \* start_dance messages of one connection
MaxDanceChunks == 3    \* audio chunks kept for one recording

ChunkKinds == {"speech", "silence"}

\* int(elapsed) of the audio handler
Seconds(age) == age \div TicksPerSecond

NoDanceLog == [rec |-> 0, terminals |-> 0, cancelled |-> FALSE,
               processedAt |-> -1, outcome |-> None, progress |-> <<>>]

DanceStart ==
    /\ dance_recording = FALSE
    /\ dance_buffers = <<>>
    /\ dance_age = 0
    /\ timers = <<>>
    /\ isRecording = FALSE
    /\ danceLog = NoDanceLog

PlanDurations == {0, 2, 12}
MaxPerfNow == 16       \* seconds of page time
MaxLoops == 3          \* animation frame callbacks pending at once

NoAnimLog == [shown |-> 0, lateDraw |-> FALSE]

AnimStart ==
    /\ dancePlan = <<>>
    /\ danceStartTime = 0
    /\ perfNow = 0
    /\ animLoops = 0
    /\ statusText = "ready"
    /\ scoreVisible = FALSE
    /\ animLog = NoAnimLog

enrollmentDuration == 5
MaxPending == 2        \* calls of one handler suspended at an await
MaxIntervals == 3      \* interval timers set by the page
MaxSends == 2          \* control messages of one kind in one enrollment run

InputValues == {"", " ", "Ann", "Bob"}

\* String.trim of a name field value
Trim(v) == IF v = " " THEN "" ELSE v

NoCapture == [running |-> FALSE, callbacks |-> {}]

NoRun == [name |-> "", completes |-> 0, cancels |-> 0, sentName |-> "",
          started |-> FALSE, frames |-> 0, stray |-> FALSE]

NoWire == [listen |-> "none", frames |-> 0, stray |-> FALSE]

ClientStart ==
    /\ socket = "connecting"
    /\ audioContext = FALSE
    /\ capture = NoCapture
    /\ nameInput = [value |-> "", disabled |-> FALSE]
    /\ enrollBtns = [start |-> "disabled", cancel |-> "disabled"]
    /\ pendingEnroll = <<>>
    /\ isEnrolling = FALSE
    /\ enrollmentName = ""
    /\ enrollElapsed = 0
    /\ progressInterval = 0
    /\ intervals = {}
    /\ repliesDue = 0
    /\ runLog = NoRun
    /\ statusDiv = ""
    /\ isListening = FALSE
    /\ listenBtns = [start |-> "disabled", stop |-> "disabled"]
    /\ pendingListen = <<>>
    /\ wireLog = NoWire

LogLimit == 50         \* entries the command log keeps
MaxMessages == 52      \* command messages displayed in one run of the model

\* child nodes of the command log that are not entries: the placeholder
\* element and whitespace text; entry n is the n-th command displayed
Placeholder == -1
TextNode == 0

LogForms == {<<>>, <<Placeholder>>, <<TextNode, Placeholder, TextNode>>}

NoReceived == [all |-> 0, withCommand |-> 0]

DisplayStart ==
    /\ danceBtns = [start |-> "enabled", cancel |-> "disabled"]
    /\ alerted = FALSE
    /\ commandCount = 0
    /\ activeSpeakers = {}
    /\ received = NoReceived
    /\ handledBy = <<>>
    /\ pose = <<>>
    /\ score = <<>>

\* the page after the DOMContentLoaded listeners have run
PageLoaded ==
    /\ loadPhase = "ready"
    /\ onMessage = <<"display", "dance">>
    /\ commandLog = <<Placeholder>>

PageStart ==
    /\ DanceStart
    /\ AnimStart
    /\ ctx = TRUE
    /\ ClientStart
    /\ DisplayStart
    /\ PageLoaded

---------------------------------------------------------------------------
(* The coordinator flow of one connection *)

ConnectionStart ==
    /\ buffer = <<>>
    /\ streamPos = 0
    /\ nDropped = 0
    /\ win = <<>>
    /\ pc = "idle"
    /\ elapsed = 0
    /\ identTask = "none"
    /\ transTask = "none"
    /\ identRes = UnknownMatch
    /\ transRes = <<>>
    /\ staleIdent = 0
    /\ staleTrans = 0
    /\ speaker = UnknownMatch
    /\ transcript = <<>>
    /\ tried = <<>>
    /\ parsed = <<>>
    /\ calls = NoCalls
    /\ llmOutcome = "none"
    /\ llmFailures = 0
    /\ draft = <<>>
    /\ sent = <<>>
    /\ errors = 0
    /\ connOpen = TRUE
    /\ faults = {}

Init == ConnectionStart /\ PageStart /\ ServerStart

NewWindow(w) ==
    /\ win' = w
    /\ identRes' = UnknownMatch
    /\ transRes' = <<>>
    /\ speaker' = UnknownMatch
    /\ transcript' = <<>>
    /\ tried' = <<>>
    /\ parsed' = <<>>
    /\ llmOutcome' = "none"
    /\ draft' = <<>>
    /\ sent' = <<>>
    /\ elapsed' = 0
    /\ IF IsSilent(w)
       THEN /\ pc' = "idle"
            /\ identTask' = "none"
            /\ transTask' = "none"
            /\ calls' = NoCalls
       ELSE /\ pc' = "join"
            /\ identTask' = "running"
            /\ transTask' = "running"
            /\ calls' = [ident |-> 1, trans |-> 1, llm |-> 0]

HandleAudio(k, lvl) ==
    /\ pc = "idle"
    /\ connOpen
    /\ streamPos + k <= MaxStream
    /\ LET chunk == [i \in 1..k |-> [idx |-> streamPos + i, level |-> lvl]]
           extended == buffer \o chunk
           rest == IF Ready(extended) THEN AfterConsume(extended) ELSE extended
       IN /\ streamPos' = streamPos + k
          /\ buffer' = Flush(rest)
          /\ nDropped' = nDropped + (Len(rest) - Len(Flush(rest)))
          /\ IF Ready(extended)
             THEN NewWindow(Consume(extended))
             ELSE UNCHANGED <<win, pc, elapsed, identTask, transTask, identRes,
                              transRes, speaker, transcript, tried, parsed, calls,
                              llmOutcome, draft, sent>>
    /\ UNCHANGED <<staleIdent, staleTrans, llmFailures, errors, connOpen>>
    /\ UNCHANGED <<serverVars, faults, pageVars, dancePageVars,
                   displayVars, canvasVars>>

BothDone == identTask = "done" /\ transTask = "done"

Tick ==
    /\ pc = "join"
    /\ ~BothDone
    /\ elapsed < JoinDeadlineTicks
    /\ elapsed' = elapsed + 1
    /\ UNCHANGED <<buffer, streamPos, nDropped, win, pc, identTask, transTask,
                   identRes, transRes, staleIdent, staleTrans, speaker, transcript,
                   tried, parsed, calls, llmOutcome, llmFailures, draft, sent,
                   errors, connOpen>>
    /\ UNCHANGED <<serverVars, faults, pageVars, dancePageVars,
                   displayVars, canvasVars>>

IdentReturns(m) ==
    /\ pc = "join"
    /\ identTask = "running"
    /\ identTask' = "done"
    /\ identRes' = m
    /\ UNCHANGED <<buffer, streamPos, nDropped, win, pc, elapsed, transTask,
                   transRes, staleIdent, staleTrans, speaker, transcript, tried,
                   parsed, calls, llmOutcome, llmFailures, draft, sent, errors,
                   connOpen>>
    /\ UNCHANGED <<serverVars, faults, pageVars, dancePageVars,
                   displayVars, canvasVars>>

TransReturns(t) ==
    /\ pc = "join"
    /\ transTask = "running"
    /\ transTask' = "done"
    /\ transRes' = t
    /\ UNCHANGED <<buffer, streamPos, nDropped, win, pc, elapsed, identTask,
                   identRes, staleIdent, staleTrans, speaker, transcript, tried,
                   parsed, calls, llmOutcome, llmFailures, draft, sent, errors,
                   connOpen>>
    /\ UNCHANGED <<serverVars, faults, pageVars, dancePageVars,
                   displayVars, canvasVars>>

JoinComplete ==
    /\ pc = "join"
    /\ BothDone
    /\ speaker' = identRes
    /\ transcript' = transRes
    /\ pc' = "extract"
    /\ UNCHANGED <<buffer, streamPos, nDropped, win, elapsed, identTask, transTask,
                   identRes, transRes, staleIdent, staleTrans, tried, parsed, calls,
                   llmOutcome, llmFailures, draft, sent, errors, connOpen>>
    /\ UNCHANGED <<serverVars, faults, pageVars, dancePageVars,
                   displayVars, canvasVars>>

\* Fault variant of JoinTimeout: the join has no deadline.
JoinNoDeadline == FALSE /\ UNCHANGED vars

JoinTimeout ==
    /\ pc = "join"
    /\ ~BothDone
    /\ elapsed = JoinDeadlineTicks
    /\ speaker' = IF identTask = "done" THEN identRes ELSE UnknownMatch
    /\ transcript' = IF transTask = "done" THEN transRes ELSE <<>>
    /\ identTask' = IF identTask = "done" THEN "done" ELSE "abandoned"
    /\ transTask' = IF transTask = "done" THEN "done" ELSE "abandoned"
    /\ staleIdent' = IF identTask = "done" THEN staleIdent ELSE staleIdent + 1
    /\ staleTrans' = IF transTask = "done" THEN staleTrans ELSE staleTrans + 1
    /\ pc' = "extract"
    /\ UNCHANGED <<buffer, streamPos, nDropped, win, elapsed, identRes, transRes,
                   tried, parsed, calls, llmOutcome, llmFailures, draft, sent,
                   errors, connOpen>>
    /\ UNCHANGED <<serverVars, faults, pageVars, dancePageVars,
                   displayVars, canvasVars>>

\* Fault variant of LateIdentReturns: a result that arrives after the deadline
\* replaces the default the join substituted.
LateIdentReturnsUsed(m) ==
    /\ staleIdent > 0
    /\ staleIdent' = staleIdent - 1
    /\ speaker' = IF pc \in {"extract", "llm"} THEN m ELSE speaker
    /\ UNCHANGED <<buffer, streamPos, nDropped, win, pc, elapsed, identTask,
                   transTask, identRes, transRes, staleTrans, transcript,
                   tried, parsed, calls, llmOutcome, llmFailures, draft, sent,
                   errors, connOpen>>
    /\ UNCHANGED <<serverVars, faults, pageVars, dancePageVars,
                   displayVars, canvasVars>>

LateIdentReturns(m) ==
    /\ staleIdent > 0
    /\ staleIdent' = staleIdent - 1
    /\ UNCHANGED <<buffer, streamPos, nDropped, win, pc, elapsed, identTask,
                   transTask, identRes, transRes, staleTrans, speaker, transcript,
                   tried, parsed, calls, llmOutcome, llmFailures, draft, sent,
                   errors, connOpen>>
    /\ UNCHANGED <<serverVars, faults, pageVars, dancePageVars,
                   displayVars, canvasVars>>

LateTransReturns(t) ==
    /\ staleTrans > 0
    /\ staleTrans' = staleTrans - 1
    /\ UNCHANGED <<buffer, streamPos, nDropped, win, pc, elapsed, identTask,
                   transTask, identRes, transRes, staleIdent, speaker, transcript,
                   tried, parsed, calls, llmOutcome, llmFailures, draft, sent,
                   errors, connOpen>>
    /\ UNCHANGED <<serverVars, faults, pageVars, dancePageVars,
                   displayVars, canvasVars>>

Extract ==
    /\ pc = "extract"
    /\ IF Stage1(transcript).command # None
       THEN /\ tried' = <<1>>
            /\ Finish(Stage1(transcript))
            /\ UNCHANGED calls
       ELSE IF Stage2(transcript).command # None
            THEN /\ tried' = <<1, 2>>
                 /\ Finish(Stage2(transcript))
                 /\ UNCHANGED calls
            ELSE /\ tried' = <<1, 2, 3>>
                 /\ calls' = [calls EXCEPT !.llm = @ + 1]
                 /\ pc' = "llm"
                 /\ UNCHANGED <<parsed, draft, sent>>
    /\ UNCHANGED <<buffer, streamPos, nDropped, win, elapsed, identTask, transTask,
                   identRes, transRes, staleIdent, staleTrans, speaker, transcript,
                   llmOutcome, llmFailures, errors, connOpen>>
    /\ UNCHANGED <<serverVars, faults, pageVars, dancePageVars,
                   displayVars, canvasVars>>

LLMReturns(a) ==
    /\ pc = "llm"
    /\ llmOutcome' = "returned"
    /\ Finish(ParsedCommand(a.command, transcript, a.confidence, 3))
    /\ UNCHANGED <<buffer, streamPos, nDropped, win, elapsed, identTask, transTask,
                   identRes, transRes, staleIdent, staleTrans, speaker, transcript,
                   tried, calls, llmFailures, errors, connOpen>>
    /\ UNCHANGED <<serverVars, faults, pageVars, dancePageVars,
                   displayVars, canvasVars>>

\* Fault variant of LLMFails: a failed fallback call is made again.
LLMFailsRetries(kind) ==
    /\ pc = "llm"
    /\ llmOutcome' = kind
    /\ llmFailures' = llmFailures + 1
    /\ calls' = [calls EXCEPT !.llm = @ + 1]
    /\ UNCHANGED <<buffer, streamPos, nDropped, win, pc, elapsed, identTask,
                   transTask, identRes, transRes, staleIdent, staleTrans, speaker,
                   transcript, tried, parsed, draft, sent, errors, connOpen>>
    /\ UNCHANGED <<serverVars, faults, pageVars, dancePageVars,
                   displayVars, canvasVars>>

\* Fault variant of LLMFails: the failure is reported to the client.
LLMFailsVisible(kind) ==
    /\ pc = "llm"
    /\ llmOutcome' = kind
    /\ llmFailures' = llmFailures + 1
    /\ errors' = errors + 1
    /\ Finish(ParsedCommand(None, transcript, 0, 3))
    /\ UNCHANGED <<buffer, streamPos, nDropped, win, elapsed, identTask, transTask,
                   identRes, transRes, staleIdent, staleTrans, speaker, transcript,
                   tried, calls, connOpen>>
    /\ UNCHANGED <<serverVars, faults, pageVars, dancePageVars,
                   displayVars, canvasVars>>

LLMFails(kind) ==
    /\ pc = "llm"
    /\ llmOutcome' = kind
    /\ llmFailures' = llmFailures + 1
    /\ Finish(ParsedCommand(None, transcript, 0, 3))
    /\ UNCHANGED <<buffer, streamPos, nDropped, win, elapsed, identTask, transTask,
                   identRes, transRes, staleIdent, staleTrans, speaker, transcript,
                   tried, calls, errors, connOpen>>
    /\ UNCHANGED <<serverVars, faults, pageVars, dancePageVars,
                   displayVars, canvasVars>>

Processing ==
    \/ Tick
    \/ \E m \in SpeakerMatches : IdentReturns(m)
    \/ \E t \in Utterances : TransReturns(t)
    \/ JoinComplete
    \/ JoinTimeout
    \/ \E m \in SpeakerMatches : LateIdentReturns(m)
    \/ \E t \in Utterances : LateTransReturns(t)
    \/ Extract
    \/ \E a \in LLMAnswers : LLMReturns(a)
    \/ \E kind \in {"timeout", "error"} : LLMFails(kind)

Next ==
    \/ \E k \in 1..MaxChunkQuanta, lvl \in Levels : HandleAudio(k, lvl)
    \/ Processing

Spec == Init /\ [][Next]_vars

(* The same flow fed with speech in chunks of one window each, under the   *)
(* scheduling the coordinator has: the clock advances, a join that can end *)
(* ends, extraction runs, and the fallback call is cut off by its timeout. *)
(* The recognition calls and the client's audio are under no obligation.   *)
NextSpeech ==
    \/ HandleAudio(CHUNK_DURATION_MS \div Quantum, SILENCE_RMS)
    \/ Processing

FairSpec ==
    /\ Init
    /\ [][NextSpeech]_vars
    /\ WF_vars(Tick)
    /\ WF_vars(JoinComplete)
    /\ WF_vars(JoinTimeout)
    /\ WF_vars(Extract)
    /\ WF_vars(LLMFails("timeout"))

---------------------------------------------------------------------------
(* The same flow with the failures of its calls and of its surroundings    *)
(* made explicit: a recognition call that fails yields its neutral         *)
(* default, an unavailable store is reported, the transport may break.     *)

MaxErrors == 2         \* error messages sent on the connection

IdentFails ==
    /\ pc = "join"
    /\ identTask = "running"
    /\ identTask' = "done"
    /\ identRes' = UnknownMatch
    /\ faults' = faults \cup {"identification"}
    /\ UNCHANGED <<buffer, streamPos, nDropped, win, pc, elapsed, transTask,
                   transRes, staleIdent, staleTrans, speaker, transcript, tried,
                   parsed, calls, llmOutcome, llmFailures, draft, sent, errors,
                   connOpen, serverVars, pageVars, dancePageVars,
                   displayVars, canvasVars>>

TransFails ==
    /\ pc = "join"
    /\ transTask = "running"
    /\ transTask' = "done"
    /\ transRes' = <<>>
    /\ faults' = faults \cup {"transcription"}
    /\ UNCHANGED <<buffer, streamPos, nDropped, win, pc, elapsed, identTask,
                   identRes, staleIdent, staleTrans, speaker, transcript, tried,
                   parsed, calls, llmOutcome, llmFailures, draft, sent, errors,
                   connOpen, serverVars, pageVars, dancePageVars,
                   displayVars, canvasVars>>

StoreUnavailable ==
    /\ pc = "join"
    /\ identTask = "running"
    /\ errors < MaxErrors
    /\ identTask' = "done"
    /\ identRes' = UnknownMatch
    /\ errors' = errors + 1
    /\ faults' = faults \cup {"store"}
    /\ UNCHANGED <<buffer, streamPos, nDropped, win, pc, elapsed, transTask,
                   transRes, staleIdent, staleTrans, speaker, transcript, tried,
                   parsed, calls, llmOutcome, llmFailures, draft, sent, connOpen,
                   serverVars, pageVars, dancePageVars,
                   displayVars, canvasVars>>

TransportFails ==
    /\ connOpen
    /\ connOpen' = FALSE
    /\ faults' = faults \cup {"transport"}
    /\ UNCHANGED <<buffer, streamPos, nDropped, win, pc, elapsed, identTask,
                   transTask, identRes, transRes, staleIdent, staleTrans, speaker,
                   transcript, tried, parsed, calls, llmOutcome, llmFailures, draft,
                   sent, errors, serverVars, pageVars, dancePageVars,
                   displayVars, canvasVars>>

NextFaults ==
    \/ NextSpeech
    \/ IdentFails
    \/ TransFails
    \/ StoreUnavailable
    \/ TransportFails

SpecFaults == Init /\ [][NextFaults]_vars

---------------------------------------------------------------------------
(* The command extractor on its own: extract(text, valid_commands) applied *)
(* to every transcript of at most MaxLen atoms.                            *)

ExtractWindow == <<[idx |-> 1, level |-> SILENCE_RMS], [idx |-> 2, level |-> SILENCE_RMS]>>

InitExtract ==
    /\ buffer = <<>>
    /\ streamPos = Len(ExtractWindow)
    /\ nDropped = 0
    /\ win = ExtractWindow
    /\ pc = "extract"
    /\ elapsed = 0
    /\ identTask = "done"
    /\ transTask = "done"
    /\ identRes \in {UnknownMatch, [name |-> "Jalen", confidence |-> SIMILARITY_EXAMPLE]}
    /\ transRes \in AllTexts
    /\ staleIdent = 0
    /\ staleTrans = 0
    /\ speaker = identRes
    /\ transcript = transRes
    /\ tried = <<>>
    /\ parsed = <<>>
    /\ calls = [ident |-> 1, trans |-> 1, llm |-> 0]
    /\ llmOutcome = "none"
    /\ llmFailures = 0
    /\ draft = <<>>
    /\ sent = <<>>
    /\ errors = 0
    /\ connOpen = TRUE
    /\ faults = {}
    /\ PageStart
    /\ ServerStart

NextExtract ==
    \/ Extract
    \/ \E a \in LLMAnswers : LLMReturns(a)
    \/ \E kind \in {"timeout", "error"} : LLMFails(kind)

SpecExtract == InitExtract /\ [][NextExtract]_vars

---------------------------------------------------------------------------
(* The Enrollment Store on its own: profiles are committed and removed,    *)
(* identification and speakers_list read it, one operation at a time.      *)

MaxProfiles == 3       \* most profiles the store holds

Enroll(n, e) ==
    /\ n \in Enrolled(store) \/ Len(store) < MaxProfiles
    /\ store' = CommitProfile(store, n, e)
    /\ ledger' = [ledger EXCEPT ![n] = "enrolled"]
    /\ match' = <<>>
    /\ listed' = <<>>
    /\ UNCHANGED <<pipeVars, pageVars, dancePageVars,
                   displayVars, canvasVars>>
    /\ UNCHANGED sessionVars

RemoveSpeaker(n) ==
    /\ n \in Enrolled(store)
    /\ store' = RemoveProfile(store, n)
    /\ ledger' = [ledger EXCEPT ![n] = "removed"]
    /\ match' = <<>>
    /\ listed' = <<>>
    /\ UNCHANGED <<pipeVars, pageVars, dancePageVars,
                   displayVars, canvasVars>>
    /\ UNCHANGED sessionVars

IdentifyCall(q, mode) ==
    /\ match' = <<[query |-> q, mode |-> mode, result |-> Identify(store, q, mode)]>>
    /\ UNCHANGED <<store, listed, ledger>>
    /\ UNCHANGED <<pipeVars, pageVars, dancePageVars,
                   displayVars, canvasVars>>
    /\ UNCHANGED sessionVars

ListSpeakers ==
    /\ listed' = <<StoreNames(store)>>
    /\ UNCHANGED <<store, match, ledger>>
    /\ UNCHANGED <<pipeVars, pageVars, dancePageVars,
                   displayVars, canvasVars>>
    /\ UNCHANGED sessionVars

NextStore ==
    \/ \E n \in Names, e \in Voices : Enroll(n, e)
    \/ \E n \in Names : RemoveSpeaker(n)
    \/ \E q \in Queries, mode \in Modes : IdentifyCall(q, mode)
    \/ ListSpeakers

SpecStore == Init /\ [][NextStore]_vars

---------------------------------------------------------------------------
(* Extraction, normalisation and persistence of embeddings.  The unit      *)
(* length is the length of Probe; what the embedding model puts out is a   *)
(* voice direction at some gain; the registry file is keyed by name.       *)

MaxGain == 2           \* length of a raw embedding, in unit lengths

Scaled(v, k) == [i \in 1..Len(v) |-> k * v[i]]

RawEmbeddings == {Scaled(v, k) : v \in Voices, k \in 1..MaxGain}

ISqrt(n) == CHOOSE k \in 0..n : k * k <= n /\ n < (k + 1) * (k + 1)

\* Fault variant of Normalize: the raw embedding is kept as it is.
NormalizeNot(v) == v

\* embedding / np.linalg.norm(embedding), in unit lengths
Normalize(v) ==
    LET norm == ISqrt(Dot(v, v) \div NormSq)
    IN  [i \in 1..Len(v) |-> v[i] \div norm]

PutEntry(file, n, e) ==
    IF \E i \in 1..Len(file) : file[i].key = n
    THEN [i \in 1..Len(file) |->
            IF file[i].key = n THEN [key |-> n, value |-> e] ELSE file[i]]
    ELSE Append(file, [key |-> n, value |-> e])

RECURSIVE Save(_)
\* the registry written to speakers.json: one entry per name
Save(st) ==
    IF st = <<>> THEN <<>>
    ELSE PutEntry(Save(SubSeq(st, 1, Len(st) - 1)),
                  st[Len(st)].name, st[Len(st)].embedding)

\* the store read back from speakers.json
Load(file) == [i \in 1..Len(file) |-> SpeakerProfile(file[i].key, file[i].value)]

\* a session commits: the embedding of its audio is extracted, normalised
\* and written
EnrollRaw(n, raw) == Enroll(n, Normalize(raw))

\* the server process is started again
Restart ==
    /\ store # <<>>
    /\ store' = Load(Save(store))
    /\ ledger' = [n \in Names |->
                    IF n \in Enrolled(store) THEN "restored" ELSE ledger[n]]
    /\ match' = <<>>
    /\ listed' = <<>>
    /\ UNCHANGED <<pipeVars, pageVars, dancePageVars,
                   displayVars, canvasVars>>
    /\ UNCHANGED sessionVars

NextPersist ==
    \/ \E n \in Names, raw \in RawEmbeddings : EnrollRaw(n, raw)
    \/ \E n \in Names : RemoveSpeaker(n)
    \/ Restart

SpecPersist == Init /\ [][NextPersist]_vars

---------------------------------------------------------------------------
(* The server: connections with their enrollment sessions and recognition  *)
(* flows, on the shared Enrollment Store under its lock.                   *)

MaxEnrollChunks == 2   \* longest enrollment recording kept, in chunks

MinEnrollChunks == MaxEnrollChunks

EnrollNames == {"Jalen", "Maya"}

Active(s) == s.state \in {"Recording", "Finalizing"}

Terminal(s) == s.state \in {"Committed", "Cancelled", "Failed"}

NewSession(n, previous) ==
    [state |-> "Recording", name |-> n, audio |-> 0, start |-> 1 - previous.start]

\* Fault variant of CancelSession: a finished session is cancelled as well.
CancelAnySession(s) == [s EXCEPT !.state = "Cancelled", !.audio = 0]

CancelSession(s) ==
    IF Terminal(s) THEN s ELSE [s EXCEPT !.state = "Cancelled", !.audio = 0]

Interrupted(f) ==
    IF f.phase = "idle" THEN f ELSE [f EXCEPT !.interrupted = TRUE]

CancelFlow(f) == [Interrupted(f) EXCEPT !.phase = "idle"]

WriteOf(c, kind) == {w \in lock.writers : w.conn = c /\ w.kind = kind}

LockFree == lock.writers = {} /\ lock.readers = {}

ReleaseRead(c) == [lock EXCEPT !.readers = @ \ {c}]

ReleaseWrite(c, kind) == [lock EXCEPT !.writers = @ \ WriteOf(c, kind)]

ReleaseAll(c) ==
    [writers |-> {w \in lock.writers : w.conn # c}, readers |-> lock.readers \ {c}]

Serving(c) == conn[c].open /\ WriteOf(c, "remove") = {}

\* Fault variant of StartEnrollment: a start during a recording begins anew.
StartEnrollmentAnew(c, n) ==
    /\ Serving(c)
    /\ sessions' = [sessions EXCEPT ![c] = NewSession(n, @)]
    /\ reply' = [reply EXCEPT ![c] = [type |-> "enrollment_started"]]
    /\ flows' = [flows EXCEPT ![c] = CancelFlow(@)]
    /\ lock' = ReleaseRead(c)
    /\ UNCHANGED <<conn, storeVars, pipeVars, pageVars, dancePageVars,
                   displayVars, canvasVars>>

StartEnrollment(c, n) ==
    /\ Serving(c)
    /\ IF Active(sessions[c])
       THEN /\ reply' = [reply EXCEPT ![c] = [type |-> "error"]]
            /\ UNCHANGED sessions
       ELSE /\ sessions' = [sessions EXCEPT ![c] = NewSession(n, @)]
            /\ reply' = [reply EXCEPT ![c] = [type |-> "enrollment_started"]]
    /\ flows' = [flows EXCEPT ![c] = CancelFlow(@)]
    /\ lock' = ReleaseRead(c)
    /\ UNCHANGED <<conn, storeVars, pipeVars, pageVars, dancePageVars,
                   displayVars, canvasVars>>

AudioChunk(c) ==
    /\ Serving(c)
    /\ \/ /\ sessions[c].state = "Recording"
          /\ sessions[c].audio < MaxEnrollChunks
          /\ sessions' = [sessions EXCEPT ![c].audio = @ + 1]
          /\ UNCHANGED flows
       \/ /\ sessions[c].state # "Recording"
          /\ conn[c].listening
          /\ flows[c].phase = "idle"
          /\ flows' = [flows EXCEPT ![c] =
                         [phase |-> "waiting", emitted |-> FALSE, interrupted |-> FALSE]]
          /\ UNCHANGED sessions
    /\ UNCHANGED <<conn, reply, lock, storeVars, pipeVars, pageVars, dancePageVars,
                   displayVars, canvasVars>>

CompleteEnrollment(c) ==
    /\ Serving(c)
    /\ sessions[c].state = "Recording"
    /\ sessions' = [sessions EXCEPT ![c].state = "Finalizing"]
    /\ UNCHANGED <<conn, flows, reply, lock, storeVars, pipeVars, pageVars, dancePageVars,
                   displayVars, canvasVars>>

FinalizeFails(c, cause) ==
    /\ sessions[c].state = "Finalizing"
    /\ WriteOf(c, "commit") = {}
    /\ cause = "short" <=> sessions[c].audio < MinEnrollChunks
    /\ sessions' = [sessions EXCEPT ![c].state = "Failed", ![c].audio = 0]
    /\ reply' = [reply EXCEPT ![c] =
                   [type |-> "enrollment_complete", success |-> FALSE]]
    /\ UNCHANGED <<conn, flows, lock, storeVars, pipeVars, pageVars, dancePageVars,
                   displayVars, canvasVars>>

\* Fault variant of BeginCommit: the length of the recording is not tested.
BeginCommitAnyLength(c, e) ==
    /\ sessions[c].state = "Finalizing"
    /\ WriteOf(c, "commit") = {}
    /\ LockFree
    /\ lock' = [lock EXCEPT !.writers = @ \cup
                  {[conn |-> c, kind |-> "commit", name |-> sessions[c].name,
                    embedding |-> e]}]
    /\ UNCHANGED <<conn, sessions, flows, reply, storeVars, pipeVars, pageVars, dancePageVars,
                   displayVars, canvasVars>>

BeginCommit(c, e) ==
    /\ sessions[c].state = "Finalizing"
    /\ WriteOf(c, "commit") = {}
    /\ sessions[c].audio >= MinEnrollChunks
    /\ LockFree
    /\ lock' = [lock EXCEPT !.writers = @ \cup
                  {[conn |-> c, kind |-> "commit", name |-> sessions[c].name,
                    embedding |-> e]}]
    /\ UNCHANGED <<conn, sessions, flows, reply, storeVars, pipeVars, pageVars, dancePageVars,
                   displayVars, canvasVars>>

EndCommit(c) ==
    \E w \in WriteOf(c, "commit") :
        /\ w.name \in Enrolled(store) \/ Len(store) < MaxProfiles
        /\ store' = CommitProfile(store, w.name, w.embedding)
        /\ ledger' = [ledger EXCEPT ![w.name] = "enrolled"]
        /\ sessions' = [sessions EXCEPT ![c].state = "Committed", ![c].audio = 0]
        /\ reply' = [reply EXCEPT ![c] =
                       [type |-> "enrollment_complete", success |-> TRUE]]
        /\ lock' = ReleaseWrite(c, "commit")
        /\ UNCHANGED <<conn, flows, match, listed, pipeVars, pageVars, dancePageVars,
                   displayVars, canvasVars>>

\* Fault variant of CancelEnrollment: a store write under way is left to end.
CancelLeavesCommit(c) ==
    /\ Serving(c)
    /\ ~Terminal(sessions[c])
    /\ sessions' = [sessions EXCEPT ![c] = CancelSession(@)]
    /\ reply' = [reply EXCEPT ![c] = [type |-> "enrollment_cancelled"]]
    /\ UNCHANGED <<conn, flows, lock, storeVars, pipeVars, pageVars, dancePageVars,
                   displayVars, canvasVars>>

CancelEnrollment(c) ==
    /\ Serving(c)
    /\ ~Terminal(sessions[c])
    /\ sessions' = [sessions EXCEPT ![c] = CancelSession(@)]
    /\ lock' = ReleaseWrite(c, "commit")
    /\ reply' = [reply EXCEPT ![c] = [type |-> "enrollment_cancelled"]]
    /\ UNCHANGED <<conn, flows, storeVars, pipeVars, pageVars, dancePageVars,
                   displayVars, canvasVars>>

Disconnect(c) ==
    /\ conn[c].open
    /\ conn' = [conn EXCEPT ![c] =
                  [open |-> FALSE, listening |-> FALSE, dancing |-> FALSE]]
    /\ sessions' = [sessions EXCEPT ![c] = CancelSession(@)]
    /\ flows' = [flows EXCEPT ![c] = CancelFlow(@)]
    /\ lock' = ReleaseAll(c)
    /\ UNCHANGED <<reply, storeVars, pipeVars, pageVars, dancePageVars,
                   displayVars, canvasVars>>

StartListening(c) ==
    /\ Serving(c)
    /\ ~conn[c].listening
    /\ conn' = [conn EXCEPT ![c].listening = TRUE]
    /\ UNCHANGED <<sessions, flows, reply, lock, storeVars, pipeVars, pageVars, dancePageVars,
                   displayVars, canvasVars>>

StopListening(c) ==
    /\ Serving(c)
    /\ conn[c].listening
    /\ conn' = [conn EXCEPT ![c].listening = FALSE]
    /\ flows' = [flows EXCEPT ![c] = CancelFlow(@)]
    /\ lock' = ReleaseRead(c)
    /\ UNCHANGED <<sessions, reply, storeVars, pipeVars, pageVars, dancePageVars,
                   displayVars, canvasVars>>

StartDance(c) ==
    /\ Serving(c)
    /\ ~conn[c].dancing
    /\ conn' = [conn EXCEPT ![c].dancing = TRUE]
    /\ flows' = [flows EXCEPT ![c] = Interrupted(@)]
    /\ UNCHANGED <<sessions, reply, lock, storeVars, pipeVars, pageVars, dancePageVars,
                   displayVars, canvasVars>>

\* Fault variant of BeginIdentify: the read does not wait for a writer.
BeginIdentifyUnlocked(c) ==
    /\ flows[c].phase = "waiting"
    /\ flows' = [flows EXCEPT ![c].phase = "reading"]
    /\ lock' = [lock EXCEPT !.readers = @ \cup {c}]
    /\ UNCHANGED <<conn, sessions, reply, storeVars, pipeVars, pageVars, dancePageVars,
                   displayVars, canvasVars>>

BeginIdentify(c) ==
    /\ flows[c].phase = "waiting"
    /\ lock.writers = {}
    /\ flows' = [flows EXCEPT ![c].phase = "reading"]
    /\ lock' = [lock EXCEPT !.readers = @ \cup {c}]
    /\ UNCHANGED <<conn, sessions, reply, storeVars, pipeVars, pageVars, dancePageVars,
                   displayVars, canvasVars>>

EndIdentify(c) ==
    /\ flows[c].phase = "reading"
    /\ flows' = [flows EXCEPT ![c].phase = "idle", ![c].emitted = TRUE]
    /\ lock' = ReleaseRead(c)
    /\ UNCHANGED <<conn, sessions, reply, storeVars, pipeVars, pageVars, dancePageVars,
                   displayVars, canvasVars>>

BeginRemove(c, n) ==
    /\ Serving(c)
    /\ LockFree
    /\ lock' = [lock EXCEPT !.writers = @ \cup
                  {[conn |-> c, kind |-> "remove", name |-> n, embedding |-> <<>>]}]
    /\ UNCHANGED <<conn, sessions, flows, reply, storeVars, pipeVars, pageVars, dancePageVars,
                   displayVars, canvasVars>>

EndRemove(c) ==
    \E w \in WriteOf(c, "remove") :
        /\ store' = RemoveProfile(store, w.name)
        /\ ledger' = IF w.name \in Enrolled(store)
                     THEN [ledger EXCEPT ![w.name] = "removed"] ELSE ledger
        /\ lock' = ReleaseWrite(c, "remove")
        /\ UNCHANGED <<conn, sessions, flows, reply, match, listed, pipeVars, pageVars, dancePageVars,
                   displayVars, canvasVars>>

(* Enrollment and removal on two connections. *)
NextEnroll ==
    \E c \in Conns :
        \/ \E n \in EnrollNames : StartEnrollment(c, n)
        \/ AudioChunk(c)
        \/ CompleteEnrollment(c)
        \/ \E cause \in {"short", "extraction"} : FinalizeFails(c, cause)
        \/ \E e \in Queries : BeginCommit(c, e)
        \/ EndCommit(c)
        \/ CancelEnrollment(c)
        \/ Disconnect(c)
        \/ \E n \in EnrollNames : BeginRemove(c, n)
        \/ EndRemove(c)

SpecEnroll == Init /\ [][NextEnroll]_vars

(* The store lock: connections that listen, some with a recording whose    *)
(* completion has been requested, read and write the store concurrently.   *)
InitLock ==
    /\ buffer = <<>>
    /\ streamPos = 0
    /\ nDropped = 0
    /\ win = <<>>
    /\ pc = "idle"
    /\ elapsed = 0
    /\ identTask = "none"
    /\ transTask = "none"
    /\ identRes = UnknownMatch
    /\ transRes = <<>>
    /\ staleIdent = 0
    /\ staleTrans = 0
    /\ speaker = UnknownMatch
    /\ transcript = <<>>
    /\ tried = <<>>
    /\ parsed = <<>>
    /\ calls = NoCalls
    /\ llmOutcome = "none"
    /\ llmFailures = 0
    /\ draft = <<>>
    /\ sent = <<>>
    /\ errors = 0
    /\ connOpen = TRUE
    /\ faults = {}
    /\ PageStart
    /\ store = <<>>
    /\ match = <<>>
    /\ listed = <<>>
    /\ ledger = [n \in Names |-> "absent"]
    /\ conn = [c \in Conns |-> [open |-> TRUE, listening |-> TRUE, dancing |-> FALSE]]
    /\ sessions \in [Conns -> {NoSession} \cup
                        {[state |-> "Finalizing", name |-> n,
                          audio |-> MinEnrollChunks, start |-> 1] : n \in EnrollNames}]
    /\ flows = [c \in Conns |-> NoFlow]
    /\ reply = [c \in Conns |->
                  IF sessions[c] = NoSession THEN NoMessage
                  ELSE [type |-> "enrollment_started"]]
    /\ lock = FreeLock

NextLock ==
    \E c \in Conns :
        \/ AudioChunk(c)
        \/ BeginIdentify(c)
        \/ EndIdentify(c)
        \/ \E e \in Queries : BeginCommit(c, e)
        \/ EndCommit(c)
        \/ \E n \in EnrollNames : BeginRemove(c, n)
        \/ EndRemove(c)

SpecLock == InitLock /\ [][NextLock]_vars

(* Recognition flows and the control messages that interrupt them. *)
NextListen ==
    \E c \in Conns :
        \/ StartListening(c)
        \/ StopListening(c)
        \/ StartDance(c)
        \/ \E n \in EnrollNames : StartEnrollment(c, n)
        \/ CancelEnrollment(c)
        \/ AudioChunk(c)
        \/ BeginIdentify(c)
        \/ EndIdentify(c)
        \/ Disconnect(c)

SpecListen == Init /\ [][NextListen]_vars

---------------------------------------------------------------------------
(* The steps of a dance recording *)

\* _cleanup_dance_state
CleanupDanceState ==
    /\ dance_recording' = FALSE
    /\ dance_buffers' = <<>>
    /\ dance_age' = 0

RemoveAt(s, i) == SubSeq(s, 1, i - 1) \o SubSeq(s, i + 1, Len(s))

\* Fault variant of AnimateDance: the end of the plan is never noticed.
AnimateDanceOn(plan, start, pending, status, log) ==
    IF plan = <<>> \/ ~ctx
    THEN /\ animLoops' = pending
         /\ statusText' = status
         /\ animLog' = log
         /\ UNCHANGED scoreVisible
    ELSE /\ animLoops' = pending + 1
         /\ statusText' = status
         /\ animLog' = [log EXCEPT !.lateDraw = @ \/ log.shown > 0]
         /\ UNCHANGED scoreVisible

\* DanceManager.animateDance, run with the given plan and start time while
\* pending other callbacks are requested
AnimateDance(plan, start, pending, status, log) ==
    IF plan = <<>> \/ ~ctx
    THEN /\ animLoops' = pending
         /\ statusText' = status
         /\ animLog' = log
         /\ UNCHANGED scoreVisible
    ELSE IF perfNow - start > plan[1].duration
    THEN /\ animLoops' = pending
         /\ statusText' = "complete"
         /\ scoreVisible' = TRUE
         /\ animLog' = [log EXCEPT !.shown = @ + 1]
    ELSE /\ animLoops' = pending + 1
         /\ statusText' = status
         /\ animLog' = [log EXCEPT !.lateDraw = @ \/ log.shown > 0]
         /\ UNCHANGED scoreVisible

\* DanceManager.receiveDancePlan
ReceiveDancePlan(plan) ==
    /\ dancePlan' = <<plan>>
    /\ danceStartTime' = perfNow
    /\ AnimateDance(<<plan>>, perfNow, animLoops, "dancing", NoAnimLog)
    /\ UNCHANGED <<ctx, perfNow>>

\* DanceManager.startRecording and the start_dance handler
StartRecording ==
    /\ danceBtns.start = "enabled"
    /\ socket = "open"
    /\ danceLog.rec < MaxRecordings
    /\ isRecording' = TRUE
    /\ danceBtns' = [start |-> "disabled", cancel |-> "enabled"]
    /\ dance_recording' = TRUE
    /\ dance_buffers' = <<>>
    /\ dance_age' = 0
    /\ timers' = Append(timers, [left |-> DanceTicks, rec |-> danceLog.rec + 1])
    /\ danceLog' = [NoDanceLog EXCEPT !.rec = danceLog.rec + 1]
    /\ scoreVisible' = FALSE
    /\ statusText' = "describe"
    /\ UNCHANGED <<ctx, dancePlan, danceStartTime, perfNow, animLoops, animLog>>
    /\ UNCHANGED <<clientVars, pipeVars, serverVars, alerted, displayVars, canvasVars>>

\* Fault variant of StartRecordingNotConnected: the recording starts on the
\* page although nothing can be sent.
StartRecordingAnyway ==
    /\ danceBtns.start = "enabled"
    /\ socket # "open"
    /\ isRecording' = TRUE
    /\ danceBtns' = [start |-> "disabled", cancel |-> "enabled"]
    /\ alerted' = TRUE
    /\ UNCHANGED <<dance_recording, dance_buffers, dance_age, timers, danceLog,
                   animVars, clientVars, pipeVars, serverVars, displayVars, canvasVars>>

\* DanceManager.startRecording without an open socket: an alert, nothing else
StartRecordingNotConnected ==
    /\ danceBtns.start = "enabled"
    /\ socket # "open"
    /\ alerted' = TRUE
    /\ UNCHANGED <<danceBtns, danceVars, animVars, clientVars, pipeVars, serverVars,
                   displayVars, canvasVars>>

\* DanceManager.stopRecording
StopRecordingPage ==
    /\ isRecording' = FALSE
    /\ danceBtns' = [start |-> "enabled", cancel |-> "disabled"]

\* DanceManager.cancelRecording while nothing is recorded
CancelRecordingIdle ==
    /\ ~isRecording
    /\ UNCHANGED vars

\* DanceManager.cancelRecording, the cancel_dance handler and the handling
\* of dance_cancelled
CancelRecording ==
    /\ isRecording
    /\ StopRecordingPage
    /\ CleanupDanceState
    /\ danceLog' = [danceLog EXCEPT !.cancelled = TRUE]
    /\ statusText' = "cancelled"
    /\ UNCHANGED <<ctx, dancePlan, danceStartTime, perfNow, animLoops, scoreVisible,
                   animLog>>
    /\ UNCHANGED <<timers, clientVars, pipeVars, serverVars, alerted,
                   displayVars, canvasVars>>

\* the progress test of the audio handler
ProgressDue(age) == Seconds(age) % 5 = 0 /\ age > 0

\* Fault variant of DanceAudio: one progress message for each 5-second mark.
DanceAudioOncePerMark(kind) ==
    /\ dance_recording
    /\ Len(dance_buffers) < MaxDanceChunks
    /\ dance_buffers' = Append(dance_buffers, kind)
    /\ danceLog' = IF /\ ProgressDue(dance_age)
                      /\ \A i \in DOMAIN danceLog.progress :
                            danceLog.progress[i] # Seconds(dance_age)
                   THEN [danceLog EXCEPT !.progress = Append(@, Seconds(dance_age))]
                   ELSE danceLog
    /\ UNCHANGED <<dance_recording, dance_age, timers, isRecording, animVars,
                   clientVars, pipeVars, serverVars, dancePageVars,
                   displayVars, canvasVars>>

\* _handle_audio while a dance is recorded
DanceAudio(kind) ==
    /\ dance_recording
    /\ Len(dance_buffers) < MaxDanceChunks
    /\ dance_buffers' = Append(dance_buffers, kind)
    /\ danceLog' = IF ProgressDue(dance_age)
                   THEN [danceLog EXCEPT !.progress = Append(@, Seconds(dance_age))]
                   ELSE danceLog
    /\ UNCHANGED <<dance_recording, dance_age, timers, isRecording, animVars,
                   clientVars, pipeVars, serverVars, dancePageVars,
                   displayVars, canvasVars>>

\* What the transcription of the recorded audio can give: nothing usable
\* for silence, otherwise a short text, a description or an exception.
Transcriptions(buf) ==
    IF \A i \in DOMAIN buf : buf[i] = "silence"
    THEN {"empty", "raises"}
    ELSE {"short", "description", "raises"}

\* the timer set by start_dance fires: _process_dance, and the handling of
\* dance_plan or dance_error by the page
ProcessDance(i) ==
    /\ i \in DOMAIN timers
    /\ timers[i].left = 0
    /\ timers' = RemoveAt(timers, i)
    /\ CleanupDanceState
    /\ IF dance_buffers = <<>>
       THEN UNCHANGED <<isRecording, danceBtns, danceLog, animVars>>
       ELSE \E t \in Transcriptions(dance_buffers) :
               /\ StopRecordingPage
               /\ danceLog' = [danceLog EXCEPT
                      !.terminals = @ + 1,
                      !.processedAt = dance_age,
                      !.outcome = IF t = "description" THEN "dance_plan"
                                  ELSE "dance_error"]
               /\ IF t = "description"
                  THEN \E d \in PlanDurations : ReceiveDancePlan([duration |-> d])
                  ELSE /\ statusText' = "error"
                       /\ UNCHANGED <<ctx, dancePlan, danceStartTime, perfNow,
                                      animLoops, scoreVisible, animLog>>
    /\ UNCHANGED <<clientVars, pipeVars, serverVars, alerted, displayVars, canvasVars>>

DanceTick ==
    /\ timers # <<>>
    /\ \A i \in DOMAIN timers : timers[i].left > 0
    /\ timers' = [i \in DOMAIN timers |-> [timers[i] EXCEPT !.left = @ - 1]]
    /\ dance_age' = IF dance_recording THEN dance_age + 1 ELSE dance_age
    /\ UNCHANGED <<dance_recording, dance_buffers, isRecording, danceLog,
                   animVars, clientVars, pipeVars, serverVars, dancePageVars,
                   displayVars, canvasVars>>


---------------------------------------------------------------------------
(* The dance animation of the page on its own: plans arrive, page time     *)
(* passes and the requested animation frames are delivered.                *)

InitAnimate ==
    /\ ConnectionStart
    /\ ServerStart
    /\ DanceStart
    /\ AnimStart
    /\ ClientStart
    /\ DisplayStart
    /\ PageLoaded
    /\ ctx \in BOOLEAN

\* handleDanceMessage for a dance_plan message
DancePlanArrives(d) ==
    /\ animLoops < MaxLoops
    /\ perfNow + d < MaxPerfNow
    /\ StopRecordingPage
    /\ ReceiveDancePlan([duration |-> d])
    /\ UNCHANGED <<dance_recording, dance_buffers, dance_age, timers, danceLog,
                   clientVars, pipeVars, serverVars, alerted, displayVars, canvasVars>>

\* the browser runs one requested animation frame callback
AnimationFrame ==
    /\ animLoops > 0
    /\ AnimateDance(dancePlan, danceStartTime, animLoops - 1, statusText, animLog)
    /\ UNCHANGED <<ctx, dancePlan, danceStartTime, perfNow, danceVars, clientVars, pipeVars,
                   serverVars, dancePageVars,
                   displayVars, canvasVars>>

PerfTick ==
    /\ perfNow < MaxPerfNow
    /\ perfNow' = perfNow + 1
    /\ UNCHANGED <<ctx, dancePlan, danceStartTime, animLoops, statusText,
                   scoreVisible, animLog, danceVars, clientVars, pipeVars, serverVars, dancePageVars,
                   displayVars, canvasVars>>

NextAnimate ==
    \/ \E d \in PlanDurations : DancePlanArrives(d)
    \/ AnimationFrame
    \/ PerfTick

SpecAnimate ==
    /\ InitAnimate
    /\ [][NextAnimate]_vars
    /\ WF_vars(AnimationFrame)
    /\ WF_vars(PerfTick)

---------------------------------------------------------------------------
(* The page: EnrollmentManager, the listening part of DisplayManager and   *)
(* the audioCapture object they share.  A handler that awaits the          *)
(* microphone is suspended at the await and resumes in a later step.  What *)
(* audioCapture.start does with a callback given earlier is left open:     *)
(* the new callback replaces the earlier ones or is added to them.         *)

CaptureStart(cb) ==
    \E cbs \in {{cb}, capture.callbacks \cup {cb}} :
        capture' = [running |-> TRUE, callbacks |-> cbs]

CaptureStop == capture' = NoCapture

\* the input listener of the name field
InputName(v) ==
    /\ ~nameInput.disabled
    /\ v # nameInput.value
    /\ nameInput' = [nameInput EXCEPT !.value = v]
    /\ enrollBtns' = [enrollBtns EXCEPT
                        !.start = IF Trim(v) = "" THEN "disabled" ELSE "enabled"]
    /\ UNCHANGED <<captureVars, pendingEnroll, isEnrolling, enrollmentName,
                   enrollElapsed, progressInterval, intervals, repliesDue, runLog,
                   statusDiv, listenPageVars, danceVars, animVars, pipeVars,
                   serverVars, dancePageVars,
                   displayVars, canvasVars>>

\* EnrollmentManager.startEnrollment up to its first await
ClickStartEnrollment ==
    /\ enrollBtns.start = "enabled"
    /\ Trim(nameInput.value) # ""
    /\ Len(pendingEnroll) < MaxPending
    /\ pendingEnroll' = Append(pendingEnroll,
                               [name |-> Trim(nameInput.value),
                                needsInit |-> ~audioContext])
    /\ UNCHANGED <<captureVars, nameInput, enrollBtns, isEnrolling,
                   enrollmentName, enrollElapsed, progressInterval, intervals,
                   repliesDue, runLog, statusDiv, listenPageVars, danceVars, animVars,
                   pipeVars, serverVars, dancePageVars,
                   displayVars, canvasVars>>


\* startEnrollment with a name that trims to nothing: an error status only
StartEnrollmentNoName ==
    /\ enrollBtns.start = "enabled"
    /\ Trim(nameInput.value) = ""
    /\ statusDiv' = "error"
    /\ UNCHANGED <<captureVars, nameInput, enrollBtns, pendingEnroll, isEnrolling,
                   enrollmentName, enrollElapsed, progressInterval, intervals,
                   repliesDue, runLog, listenPageVars, danceVars, animVars,
                   pipeVars, serverVars, dancePageVars,
                   displayVars, canvasVars>>

Without(s, i) == SubSeq(s, 1, i - 1) \o SubSeq(s, i + 1, Len(s))

\* Fault variant of StartEnrollmentFails: the refusal is not shown.
StartEnrollmentFailsSilently(i) ==
    /\ i \in DOMAIN pendingEnroll
    /\ pendingEnroll[i].needsInit
    /\ pendingEnroll' = Without(pendingEnroll, i)
    /\ UNCHANGED <<captureVars, nameInput, enrollBtns, isEnrolling,
                   enrollmentName, enrollElapsed, progressInterval, intervals,
                   repliesDue, runLog, statusDiv, listenPageVars, danceVars, animVars,
                   pipeVars, serverVars, dancePageVars,
                   displayVars, canvasVars>>

\* startEnrollment after the await when the microphone was refused
StartEnrollmentFails(i) ==
    /\ i \in DOMAIN pendingEnroll
    /\ pendingEnroll[i].needsInit
    /\ pendingEnroll' = Without(pendingEnroll, i)
    /\ statusDiv' = "error"
    /\ UNCHANGED <<captureVars, nameInput, enrollBtns, isEnrolling,
                   enrollmentName, enrollElapsed, progressInterval, intervals,
                   repliesDue, runLog, listenPageVars, danceVars, animVars,
                   pipeVars, serverVars, dancePageVars,
                   displayVars, canvasVars>>

\* the handle setInterval returns: one that no live timer has and that the
\* page does not hold
FreshInterval ==
    CHOOSE id \in 1..(MaxIntervals + 1) :
        /\ id \notin intervals \cup {progressInterval}
        /\ \A j \in 1..(id - 1) : j \in intervals \cup {progressInterval}

\* startEnrollment after its awaits: start_enrollment is sent, the capture
\* and the progress interval are started
StartEnrollmentResumes(i) ==
    /\ i \in DOMAIN pendingEnroll
    /\ Cardinality(intervals) < MaxIntervals
    /\ progressInterval' = FreshInterval
    /\ intervals' = intervals \cup {FreshInterval}
    /\ pendingEnroll' = Without(pendingEnroll, i)
    /\ audioContext' = TRUE
    /\ isEnrolling' = TRUE
    /\ enrollmentName' = pendingEnroll[i].name
    /\ enrollElapsed' = 0
    /\ enrollBtns' = [start |-> "disabled", cancel |-> "enabled"]
    /\ nameInput' = [nameInput EXCEPT !.disabled = TRUE]
    /\ statusDiv' = ""
    /\ runLog' = [NoRun EXCEPT !.name = pendingEnroll[i].name,
                              !.started = TRUE,
                              !.stray = runLog.stray]
    /\ CaptureStart("enrollment")
    /\ UNCHANGED <<socket, repliesDue, listenPageVars, danceVars, animVars,
                   pipeVars, serverVars, dancePageVars,
                   displayVars, canvasVars>>

\* EnrollmentManager.resetUI
ResetUI(value) ==
    /\ isEnrolling' = FALSE
    /\ enrollBtns' = [start |-> IF Trim(nameInput.value) = "" THEN "disabled"
                                ELSE "enabled",
                      cancel |-> "disabled"]
    /\ nameInput' = [value |-> value, disabled |-> FALSE]

\* a progress interval fires once the duration is reached:
\* EnrollmentManager.completeEnrollment
IntervalFires(id) ==
    /\ id \in intervals
    /\ enrollElapsed >= enrollmentDuration
    /\ isEnrolling
    /\ runLog.completes < MaxSends
    /\ repliesDue < MaxSends
    /\ intervals' = intervals \ {progressInterval}
    /\ CaptureStop
    /\ runLog' = [runLog EXCEPT !.completes = @ + 1, !.sentName = enrollmentName]
    /\ repliesDue' = repliesDue + 1
    /\ UNCHANGED <<socket, audioContext, nameInput, enrollBtns, pendingEnroll,
                   isEnrolling, enrollmentName, enrollElapsed, progressInterval,
                   statusDiv, listenPageVars, danceVars, animVars, pipeVars,
                   serverVars, dancePageVars,
                   displayVars, canvasVars>>

\* EnrollmentManager.cancelEnrollment
ClickCancelEnrollment ==
    /\ enrollBtns.cancel = "enabled"
    /\ isEnrolling
    /\ runLog.cancels < MaxSends
    /\ intervals' = intervals \ {progressInterval}
    /\ progressInterval' = 0
    /\ CaptureStop
    /\ runLog' = [runLog EXCEPT !.cancels = @ + 1, !.started = FALSE]
    /\ ResetUI(nameInput.value)
    /\ statusDiv' = "error"
    /\ UNCHANGED <<socket, audioContext, pendingEnroll, enrollmentName,
                   enrollElapsed, repliesDue, listenPageVars, danceVars, animVars,
                   pipeVars, serverVars, dancePageVars,
                   displayVars, canvasVars>>

\* EnrollmentManager.handleEnrollmentComplete
HandleEnrollmentComplete(success) ==
    /\ repliesDue > 0
    /\ repliesDue' = repliesDue - 1
    /\ ResetUI(IF success THEN "" ELSE nameInput.value)
    /\ intervals' = intervals \ {progressInterval}
    /\ progressInterval' = 0
    /\ statusDiv' = IF success THEN "success" ELSE "error"
    /\ runLog' = [runLog EXCEPT !.started = FALSE]
    /\ UNCHANGED <<captureVars, pendingEnroll, enrollmentName, enrollElapsed,
                   listenPageVars, danceVars, animVars, pipeVars, serverVars, dancePageVars,
                   displayVars, canvasVars>>

\* a second of the enrollment run passes
EnrollTick ==
    /\ isEnrolling
    /\ enrollElapsed < enrollmentDuration
    /\ enrollElapsed' = enrollElapsed + 1
    /\ UNCHANGED <<captureVars, nameInput, enrollBtns, pendingEnroll, isEnrolling,
                   enrollmentName, progressInterval, intervals, repliesDue, runLog,
                   statusDiv, listenPageVars, danceVars, animVars, pipeVars,
                   serverVars, dancePageVars,
                   displayVars, canvasVars>>

\* DisplayManager.updateListeningUI
ListeningUI(listening) ==
    listenBtns' = [start |-> IF listening THEN "disabled" ELSE "enabled",
                   stop |-> IF listening THEN "enabled" ELSE "disabled"]

\* DisplayManager.startListening up to its first await
ClickStartListening ==
    /\ listenBtns.start = "enabled"
    /\ Len(pendingListen) < MaxPending
    /\ pendingListen' = Append(pendingListen, [needsInit |-> ~audioContext])
    /\ UNCHANGED <<captureVars, enrollPageVars, isListening, listenBtns, wireLog,
                   danceVars, animVars, pipeVars, serverVars, dancePageVars,
                   displayVars, canvasVars>>

\* startListening after the await when the microphone was refused
StartListeningFails(i) ==
    /\ i \in DOMAIN pendingListen
    /\ pendingListen[i].needsInit
    /\ pendingListen' = Without(pendingListen, i)
    /\ UNCHANGED <<captureVars, enrollPageVars, isListening, listenBtns, wireLog,
                   danceVars, animVars, pipeVars, serverVars, dancePageVars,
                   displayVars, canvasVars>>

\* Fault variant of StartListeningResumes: listening is only announced to
\* the backend after the capture has started.
StartListeningUnannounced(i) ==
    /\ i \in DOMAIN pendingListen
    /\ pendingListen' = Without(pendingListen, i)
    /\ audioContext' = TRUE
    /\ CaptureStart("listening")
    /\ isListening' = TRUE
    /\ ListeningUI(TRUE)
    /\ UNCHANGED <<socket, wireLog, enrollPageVars, danceVars, animVars, pipeVars,
                   serverVars, dancePageVars,
                   displayVars, canvasVars>>

\* startListening after its awaits: start_listening is sent and the capture
\* started
StartListeningResumes(i) ==
    /\ i \in DOMAIN pendingListen
    /\ pendingListen' = Without(pendingListen, i)
    /\ audioContext' = TRUE
    /\ wireLog' = [wireLog EXCEPT !.listen = "start", !.frames = 0]
    /\ CaptureStart("listening")
    /\ isListening' = TRUE
    /\ ListeningUI(TRUE)
    /\ UNCHANGED <<socket, enrollPageVars, danceVars, animVars, pipeVars,
                   serverVars, dancePageVars,
                   displayVars, canvasVars>>

\* DisplayManager.stopListening
StopListeningPage ==
    /\ CaptureStop
    /\ wireLog' = [wireLog EXCEPT !.listen = "stop"]
    /\ isListening' = FALSE
    /\ ListeningUI(FALSE)

ClickStopListening ==
    /\ listenBtns.stop = "enabled"
    /\ StopListeningPage
    /\ UNCHANGED <<socket, audioContext, pendingListen, enrollPageVars, danceVars,
                   animVars, pipeVars, serverVars, dancePageVars,
                   displayVars, canvasVars>>

\* DisplayManager.handleConnect
HandleConnect ==
    /\ socket # "open"
    /\ socket' = "open"
    /\ listenBtns' = [listenBtns EXCEPT !.start = "enabled"]
    /\ UNCHANGED <<audioContext, capture, isListening, pendingListen, wireLog,
                   enrollPageVars, danceVars, animVars, pipeVars, serverVars, dancePageVars,
                   displayVars, canvasVars>>

\* DisplayManager.handleDisconnect
HandleDisconnect ==
    /\ socket = "open"
    /\ socket' = "closed"
    /\ IF isListening
       THEN StopListeningPage
       ELSE /\ listenBtns' = [start |-> "disabled", stop |-> "disabled"]
            /\ UNCHANGED <<capture, isListening, wireLog>>
    /\ UNCHANGED <<audioContext, pendingListen, enrollPageVars, danceVars,
                   animVars, pipeVars, serverVars, dancePageVars,
                   displayVars, canvasVars>>

\* the capture hands a block of audio to its callbacks; the listening
\* callback sends it while isListening
CaptureDelivers ==
    /\ capture.running
    /\ "listening" \in capture.callbacks
    /\ isListening
    /\ wireLog.frames < MaxSends
    /\ wireLog' = [wireLog EXCEPT !.frames = @ + 1,
                                  !.stray = @ \/ wireLog.listen # "start"]
    /\ UNCHANGED <<captureVars, isListening, listenBtns, pendingListen,
                   enrollPageVars, danceVars, animVars, pipeVars, serverVars, dancePageVars,
                   displayVars, canvasVars>>

\* Fault variant of CaptureDeliversEnrollment: the callback does not test
\* isEnrolling.
CaptureDeliversUnguarded ==
    /\ capture.running
    /\ "enrollment" \in capture.callbacks
    /\ runLog.frames < MaxSends
    /\ runLog' = [runLog EXCEPT !.frames = @ + 1,
                                !.stray = @ \/ ~runLog.started]
    /\ UNCHANGED <<captureVars, nameInput, enrollBtns, pendingEnroll, isEnrolling,
                   enrollmentName, enrollElapsed, progressInterval, intervals,
                   repliesDue, statusDiv, listenPageVars, danceVars, animVars,
                   pipeVars, serverVars, dancePageVars,
                   displayVars, canvasVars>>

\* the capture hands a block of audio to the callback of startEnrollment,
\* which sends it while isEnrolling
CaptureDeliversEnrollment ==
    /\ capture.running
    /\ "enrollment" \in capture.callbacks
    /\ isEnrolling
    /\ runLog.frames < MaxSends
    /\ runLog' = [runLog EXCEPT !.frames = @ + 1,
                                !.stray = @ \/ ~runLog.started]
    /\ UNCHANGED <<captureVars, nameInput, enrollBtns, pendingEnroll, isEnrolling,
                   enrollmentName, enrollElapsed, progressInterval, intervals,
                   repliesDue, statusDiv, listenPageVars, danceVars, animVars,
                   pipeVars, serverVars, dancePageVars,
                   displayVars, canvasVars>>

NextEnrollPage ==
    \/ \E v \in InputValues : InputName(v)
    \/ ClickStartEnrollment
    \/ StartEnrollmentNoName
    \/ \E i \in 1..MaxPending : StartEnrollmentFails(i)
    \/ \E i \in 1..MaxPending : StartEnrollmentResumes(i)
    \/ \E id \in 1..(MaxIntervals + 1) : IntervalFires(id)
    \/ ClickCancelEnrollment
    \/ \E success \in BOOLEAN : HandleEnrollmentComplete(success)
    \/ EnrollTick
    \/ CaptureDeliversEnrollment

SpecEnrollPage == Init /\ [][NextEnrollPage]_vars

NextListenPage ==
    \/ HandleConnect
    \/ HandleDisconnect
    \/ ClickStartListening
    \/ \E i \in 1..MaxPending : StartListeningFails(i)
    \/ \E i \in 1..MaxPending : StartListeningResumes(i)
    \/ ClickStopListening
    \/ CaptureDelivers
    \/ \E v \in {"Ann"} : InputName(v)
    \/ ClickStartEnrollment
    \/ \E i \in 1..MaxPending : StartEnrollmentResumes(i)
    \/ \E id \in 1..(MaxIntervals + 1) : IntervalFires(id)
    \/ ClickCancelEnrollment
    \/ \E success \in BOOLEAN : HandleEnrollmentComplete(success)
    \/ EnrollTick

SpecListenPage == Init /\ [][NextListenPage]_vars

---------------------------------------------------------------------------
(* The page load and the command log.  DOMContentLoaded is dispatched to  *)
(* the document and bubbles to the window: the listener DisplayManager    *)
(* put on the document runs before the one DanceManager put on the        *)
(* window.  Messages arrive once the dispatch is over.                    *)

Speakers == {"", "Unknown", "unknown", "Ann"}

\* the command of a command message; "" stands for none
Commands == {"", "UP"}

Messages ==
    [type : {"command"}, speaker : Speakers, command : Commands]
        \cup {[type |-> "dance_status", message |-> "status"]}

Handlers(chain) == {chain[k] : k \in DOMAIN chain}

IsElement(n) == n # TextNode

\* log.children: the child nodes that are elements
Elements(nodes) == SelectSeq(nodes, IsElement)

IsNotPlaceholder(n) == n # Placeholder

\* Fault variant of KeepLogSize: the first child is removed.
RECURSIVE KeepLogSizeFromTop(_)
KeepLogSizeFromTop(nodes) ==
    IF Len(Elements(nodes)) > LogLimit
    THEN KeepLogSizeFromTop(Tail(nodes))
    ELSE nodes

\* while (log.children.length > 50) log.removeChild(log.lastChild)
RECURSIVE KeepLogSize(_)
KeepLogSize(nodes) ==
    IF Len(Elements(nodes)) > LogLimit
    THEN KeepLogSize(SubSeq(nodes, 1, Len(nodes) - 1))
    ELSE nodes

\* DisplayManager.displayCommand
DisplayCommand(data) ==
    /\ commandLog' = KeepLogSize(<<received.all + 1>>
                                 \o SelectSeq(commandLog, IsNotPlaceholder))
    /\ commandCount' = IF data.command # "" THEN commandCount + 1
                       ELSE commandCount
    /\ activeSpeakers' = IF data.speaker # "" /\ data.speaker # "Unknown"
                         THEN activeSpeakers \cup {data.speaker}
                         ELSE activeSpeakers
    /\ received' = [all |-> received.all + 1,
                    withCommand |-> IF data.command # ""
                                    THEN received.withCommand + 1
                                    ELSE received.withCommand]

\* Fault variant of SetupWebSocketHandlers: the handler found is dropped.
SetupReplacingHandler(originalOnMessage) == <<"dance">>

\* DanceManager.setupWebSocketHandlers: the handler found is called first
SetupWebSocketHandlers(originalOnMessage) == originalOnMessage \o <<"dance">>

InitDisplay ==
    /\ ConnectionStart
    /\ ServerStart
    /\ DanceStart
    /\ AnimStart
    /\ ctx = TRUE
    /\ ClientStart
    /\ DisplayStart
    /\ loadPhase = "loading"
    /\ onMessage = <<>>
    /\ commandLog \in LogForms

\* the DOMContentLoaded listener on the document: DisplayManager.initialize
DisplayInitialize ==
    /\ loadPhase = "loading"
    /\ loadPhase' = "document"
    /\ onMessage' = <<"display">>
    /\ UNCHANGED <<handledBy, commandLog, commandCount, activeSpeakers, received,
                   pageVars, dancePageVars, canvasVars, pipeVars,
                   serverVars>>

\* the DOMContentLoaded listener on the window: a DanceManager is
\* constructed if the page has a dance canvas
DanceManagerLoads(canvas) ==
    /\ loadPhase = "document"
    /\ loadPhase' = "ready"
    /\ onMessage' = IF canvas THEN SetupWebSocketHandlers(onMessage)
                    ELSE onMessage
    /\ UNCHANGED <<handledBy, commandLog, commandCount, activeSpeakers, received,
                   pageVars, dancePageVars, canvasVars, pipeVars,
                   serverVars>>

\* wsClient calls onMessage with a message of the server
Deliver(msg) ==
    /\ loadPhase = "ready"
    /\ received.all < MaxMessages
    /\ handledBy' = onMessage
    /\ IF "display" \in Handlers(onMessage) /\ msg.type = "command"
       THEN DisplayCommand(msg)
       ELSE UNCHANGED <<commandLog, commandCount, activeSpeakers, received>>
    /\ IF "dance" \in Handlers(onMessage) /\ msg.type = "dance_status"
       THEN statusText' = msg.message
       ELSE UNCHANGED statusText
    /\ UNCHANGED <<loadPhase, onMessage, ctx, dancePlan, danceStartTime, perfNow,
                   animLoops, scoreVisible, animLog, danceVars, clientVars,
                   dancePageVars, canvasVars, pipeVars, serverVars>>

NextDisplay ==
    \/ DisplayInitialize
    \/ \E canvas \in BOOLEAN : DanceManagerLoads(canvas)
    \/ \E msg \in Messages : Deliver(msg)

SpecDisplay == InitDisplay /\ [][NextDisplay]_vars

---------------------------------------------------------------------------
(* The poses and the score of a dance plan.  Times are whole seconds and  *)
(* an interpolated angle is an exact fraction num/den, so that a value    *)
(* outside the two angles it was computed from is seen as such.           *)

MaxKeyframeTime == 4   \* latest time of a keyframe in a plan of the model
MinKeyframes == 3

Angles(b, la, ra, ll, rl, rot, jump) ==
    [body |-> b, lArm |-> la, rArm |-> ra, lLeg |-> ll, rLeg |-> rl,
     rotation |-> rot, jumpOffset |-> jump]

AngleNames == {"body", "lArm", "rArm", "lLeg", "rLeg", "rotation", "jumpOffset"}

\* a missing jumpOffset reads as 0 in interpolatePoses
POSE_LIBRARY ==
    [IDLE            |-> Angles(0, 0, 0, 0, 0, 0, 0),
     ARMS_UP         |-> Angles(0, 90, 90, 0, 0, 0, 0),
     ARMS_WAVE_LEFT  |-> Angles(0, 90, -20, 0, 0, 0, 0),
     ARMS_WAVE_RIGHT |-> Angles(0, -20, 90, 0, 0, 0, 0),
     SPIN_LEFT       |-> Angles(0, 45, 45, 0, 0, -180, 0),
     SPIN_RIGHT      |-> Angles(0, 45, 45, 0, 0, 180, 0),
     KICK_LEFT       |-> Angles(10, -30, -30, 90, 0, 0, 0),
     KICK_RIGHT      |-> Angles(10, -30, -30, 0, 90, 0, 0),
     JUMP            |-> Angles(0, 45, 45, 45, 45, 0, -50),
     BOW             |-> Angles(-45, -20, -20, 0, 0, 0, 0)]

\* DanceManager.getPoseAngles: an unknown pose name gives IDLE
getPoseAngles(poseName) ==
    IF poseName \in DOMAIN POSE_LIBRARY THEN POSE_LIBRARY[poseName]
    ELSE POSE_LIBRARY.IDLE

\* pose names of the plans of the model; MOONWALK is not in the library
PlanPoses == {"IDLE", "ARMS_UP", "JUMP", "MOONWALK"}

PlanTotals == {4, 6, 18}

Keyframes ==
    {kf \in [1..MinKeyframes -> [time : 0..MaxKeyframeTime, pose : PlanPoses]] :
        \A i \in 1..(MinKeyframes - 1) : kf[i].time < kf[i + 1].time}

Plans == [duration : PlanTotals, keyframes : Keyframes]

Cube(x) == x * x * x

\* DanceManager.easeInOutCubic of t = num/den, as a multiple of 1/den^3
easeInOutCubic(num, den) ==
    IF 2 * num < den THEN 4 * Cube(num)
    ELSE Cube(den) - 4 * Cube(den - num)

\* lerp(a, b, t) with t = eased/den^3
lerp(a, b, eased, den) ==
    [num |-> a * Cube(den) + (b - a) * eased, den |-> Cube(den)]

\* DanceManager.interpolatePoses
interpolatePoses(pose1, pose2, eased, den) ==
    [f \in AngleNames |-> lerp(pose1[f], pose2[f], eased, den)]

\* the pair of keyframes the loop of getPoseAtTime stops at, or the first
\* and the last keyframe if it stops at none
Surrounding(keyframes, time) ==
    LET found == {i \in 1..(Len(keyframes) - 1) :
                     time >= keyframes[i].time /\ time <= keyframes[i + 1].time}
    IN IF found = {} THEN <<1, Len(keyframes)>>
       ELSE LET i == CHOOSE j \in found : \A k \in found : j <= k
            IN <<i, i + 1>>

\* DanceManager.getPoseAtTime
getPoseAtTime(plan, time) ==
    LET keyframes == plan.keyframes
        pair == Surrounding(keyframes, time)
        prevFrame == keyframes[pair[1]]
        nextFrame == keyframes[pair[2]]
        frameDuration == nextFrame.time - prevFrame.time
    IN IF pair[1] = pair[2]
       THEN [f \in AngleNames |->
                [num |-> getPoseAngles(prevFrame.pose)[f], den |-> 1]]
       ELSE interpolatePoses(getPoseAngles(prevFrame.pose),
                             getPoseAngles(nextFrame.pose),
                             easeInOutCubic(time - prevFrame.time, frameDuration),
                             frameDuration)

Min(a, b) == IF a < b THEN a ELSE b

\* Math.round of the fraction num/den, den > 0
Round(num, den) == (2 * num + den) \div (2 * den)

PoseNamesOf(plan) == {plan.keyframes[i].pose : i \in DOMAIN plan.keyframes}

\* DanceManager.showScore: Creativity and Energy
Creativity(plan) == Min(10, Round(Cardinality(PoseNamesOf(plan)) * 10, 10))

Energy(plan) ==
    LET n == Len(plan.keyframes)
    IN Min(10, Round(11 * n - 2 * plan.duration, n))

InitCanvas ==
    /\ ConnectionStart
    /\ ServerStart
    /\ DanceStart
    /\ ClientStart
    /\ DisplayStart
    /\ PageLoaded
    /\ ctx = TRUE
    /\ dancePlan \in {<<p>> : p \in Plans}
    /\ danceStartTime = 0
    /\ perfNow = 0
    /\ animLoops = 1
    /\ statusText = "dancing"
    /\ scoreVisible = FALSE
    /\ animLog = NoAnimLog

\* one frame of animateDance before the end of the plan: the pose of the
\* current time is drawn
DrawFrame(now) ==
    /\ animLoops = 1
    /\ now >= perfNow
    /\ now - danceStartTime <= dancePlan[1].duration
    /\ perfNow' = now
    /\ pose' = <<[time |-> now - danceStartTime,
                  angles |-> getPoseAtTime(dancePlan[1], now - danceStartTime)]>>
    /\ UNCHANGED <<ctx, dancePlan, danceStartTime, animLoops, statusText,
                   scoreVisible, animLog, score, danceVars, clientVars,
                   dancePageVars, displayVars, pipeVars, serverVars>>

\* the frame of animateDance after the end of the plan: showScore
ShowScore ==
    /\ animLoops = 1
    /\ animLoops' = 0
    /\ perfNow' = dancePlan[1].duration + 1
    /\ statusText' = "complete"
    /\ scoreVisible' = TRUE
    /\ animLog' = [animLog EXCEPT !.shown = @ + 1]
    /\ score' = <<[creativity |-> Creativity(dancePlan[1]),
                   energy |-> Energy(dancePlan[1])]>>
    /\ UNCHANGED <<ctx, dancePlan, danceStartTime, pose, danceVars, clientVars,
                   dancePageVars, displayVars, pipeVars, serverVars>>

NextCanvas ==
    \/ \E total \in PlanTotals : \E now \in 0..total : DrawFrame(now)
    \/ ShowScore

SpecCanvas == InitCanvas /\ [][NextCanvas]_vars

---------------------------------------------------------------------------
(* The dance tab: a connected page recording dances, and the page with    *)
(* its connection coming and going.                                       *)

NextDance ==
    \/ HandleConnect
    \/ StartRecording
    \/ CancelRecording
    \/ \E kind \in ChunkKinds : DanceAudio(kind)
    \/ \E i \in 1..MaxRecordings : ProcessDance(i)
    \/ DanceTick

SpecDance == Init /\ [][NextDance]_vars

NextDancePage ==
    \/ HandleConnect
    \/ HandleDisconnect
    \/ StartRecording
    \/ StartRecordingNotConnected
    \/ CancelRecording
    \/ CancelRecordingIdle
    \/ \E i \in 1..MaxRecordings : ProcessDance(i)
    \/ DanceTick

SpecDancePage == Init /\ [][NextDancePage]_vars

---------------------------------------------------------------------------
(* Properties *)

Players == {PLAYER_ASSIGNMENTS[n] : n \in DOMAIN PLAYER_ASSIGNMENTS}

EqIgnoreCase(s, t) ==
    Len(s) = Len(t) /\ \A k \in 1..Len(s) : ToLower(s[k]) = ToLower(t[k])

\* text is the spelling of c in any case, between blanks only
ExactEntry(text, c) ==
    \E i, j \in 1..Len(text) :
        /\ i <= j
        /\ \A k \in 1..Len(text) : (k < i \/ k > j) => text[k] = " "
        /\ EqIgnoreCase(SubSeq(text, i, j), Spell(c))

StageOneMatches(text) == \E c \in VALID_COMMANDS : ExactEntry(text, c)

\* text[i..j] is a word of text: a maximal run without blanks
WordAt(text, i, j) ==
    /\ i <= j
    /\ \A k \in i..j : text[k] # " "
    /\ i = 1 \/ text[i - 1] = " "
    /\ j = Len(text) \/ text[j + 1] = " "

LowerWord(text, i, j) == [k \in 1..(j - i + 1) |-> ToLower(text[i + k - 1])]

IsCommandWord(w) ==
    (\E c \in VALID_COMMANDS : w = Spell(c)) \/ w \in DOMAIN phonetic_map

CommandOfWord(w) ==
    IF \E c \in VALID_COMMANDS : w = Spell(c)
    THEN CHOOSE c \in VALID_COMMANDS : w = Spell(c)
    ELSE phonetic_map[w]

WordHit(text, i, j) == WordAt(text, i, j) /\ IsCommandWord(LowerWord(text, i, j))

FirstHit(text, i, j) ==
    /\ WordHit(text, i, j)
    /\ \A i2, j2 \in 1..Len(text) : j2 < i => ~WordHit(text, i2, j2)

ContainsCommandWord(text) == \E i, j \in 1..Len(text) : WordHit(text, i, j)

\* C1: a draft whose speaker is not a key of the assignment table (the
\* speaker "unknown" included) is discarded, no command message is sent for
\* its window, and every command message sent carries the player slot of
\* its speaker, never a null player.
C1_UnassignedDiscarded ==
    /\ (draft # <<>> /\ draft[1].speaker \notin DOMAIN PLAYER_ASSIGNMENTS)
           => sent = <<>>
    /\ \A i \in 1..Len(sent) :
           /\ sent[i].speaker \in DOMAIN PLAYER_ASSIGNMENTS
           /\ sent[i].player \in Players
           /\ sent[i].player = PLAYER_ASSIGNMENTS[sent[i].speaker]

C1_Witness ==
    /\ draft # <<>>
    /\ draft[1].speaker = "Maya"
    /\ draft[1].command = "up"
    /\ sent = <<>>
    /\ pc = "idle"

C5_BufferCeiling ==
    /\ Len(buffer) * Quantum <= MAX_BUFFER_MS
    /\ \A i \in 1..Len(buffer) : buffer[i].idx = streamPos - Len(buffer) + i
    /\ errors = 0

C5_Witness ==
    /\ nDropped > 0
    /\ Len(buffer) * Quantum = MAX_BUFFER_MS

\* C6: for a window whose RMS volume is below 0.01 neither recognition
\* call is made and no command event is produced.
C6_SilentSkipped ==
    (win # <<>> /\ SumSquares(win) < SILENCE_RMS * SILENCE_RMS * Len(win)) =>
        /\ calls = NoCalls
        /\ identTask = "none"
        /\ transTask = "none"
        /\ pc = "idle"
        /\ draft = <<>>
        /\ sent = <<>>

C6_Witness ==
    /\ win # <<>>
    /\ SumSquares(win) > 0
    /\ SumSquares(win) < SILENCE_RMS * SILENCE_RMS * Len(win)
    /\ calls = NoCalls
    /\ streamPos > Len(win)

\* C7: a transcript that, trimmed and ignoring case, equals a vocabulary
\* entry is answered by stage 1 with that entry and confidence 0.95;
\* stages 2 and 3 are not run.
C7_DirectMatch ==
    \A c \in VALID_COMMANDS :
        (pc # "extract" /\ ExactEntry(transcript, c)) =>
            /\ parsed = <<ParsedCommand(c, transcript, CONF_DIRECT, 1)>>
            /\ tried = <<1>>
            /\ calls.llm = 0
            /\ llmOutcome = "none"

C7_Witness ==
    /\ pc = "idle"
    /\ transcript = <<" ", "UP", " ">>
    /\ parsed # <<>>
    /\ parsed[1].command = "up"
    /\ parsed[1].stage = 1

\* C8: for a transcript stage 1 does not match, stage 2 returns the command
\* of the first word, in transcript order, that is a vocabulary entry or a
\* phonetic alias, whatever words follow, with a confidence of 0.75 to
\* 0.85: "yup down" yields "up", not "down".
C8_FirstWordWins ==
    pc # "extract" =>
        /\ \A i, j \in 1..Len(transcript) :
               (~StageOneMatches(transcript) /\ FirstHit(transcript, i, j)) =>
                   /\ parsed # <<>>
                   /\ parsed[1].command = CommandOfWord(LowerWord(transcript, i, j))
                   /\ parsed[1].stage = 2
                   /\ parsed[1].confidence \in CONF_WORD_PHONETIC..CONF_PHONETIC
                   /\ parsed[1].raw_text = transcript
                   /\ tried = <<1, 2>>
        /\ transcript = <<"y", "up", " ", "down">> =>
               /\ parsed[1].command = "up"
               /\ parsed[1].confidence = CONF_WORD_PHONETIC

C8_Witness ==
    /\ pc = "idle"
    /\ transcript = <<"y", "up", " ", "down">>
    /\ parsed # <<>>
    /\ parsed[1].command = "up"
    /\ parsed[1].stage = 2

\* C9: the fallback parser is called for a transcript exactly when stages
\* 1 and 2 found no command, that is exactly when the text has no word that
\* is a vocabulary entry or an alias; the stages run in the order 1, 2, 3
\* and the fallback is called at most once.
C9_FallbackIff ==
    pc # "extract" =>
        /\ tried \in {<<1>>, <<1, 2>>, <<1, 2, 3>>}
        /\ calls.llm = (IF tried = <<1, 2, 3>> THEN 1 ELSE 0)
        /\ calls.llm = 1 <=> ~ContainsCommandWord(transcript)
        /\ calls.llm = 0 => (parsed # <<>> /\ parsed[1].command # None)

C9_Witness ==
    /\ pc = "llm"
    /\ transcript = <<"x", "up">>
    /\ tried = <<1, 2, 3>>
    /\ calls.llm = 1

---------------------------------------------------------------------------
(* Properties of the Enrollment Store *)

SimAt(q, i) == Similarity(q, store[i].embedding)

IsTop(q, i) == \A j \in 1..Len(store) : SimAt(q, j) <= SimAt(q, i)

FirstTop(q, i) == IsTop(q, i) /\ \A j \in 1..(i - 1) : SimAt(q, j) < SimAt(q, i)

\* C17: identification returns the stored profile of greatest cosine
\* similarity to the audio, with that similarity as confidence, exactly when
\* the similarity is strictly above the threshold of the mode (0.30 general,
\* 0.15 gameplay), and "unknown" otherwise, an empty store included; of
\* profiles of equal greatest similarity it returns the first inserted.
C17_IdentifyBestAboveThreshold ==
    match # <<>> =>
        LET q == match[1].query
            r == match[1].result
            t == Threshold(match[1].mode)
        IN /\ \A i \in 1..Len(store) :
                FirstTop(q, i) /\ SimAt(q, i) > t =>
                    r = [name |-> store[i].name, confidence |-> SimAt(q, i)]
           /\ (\A i \in 1..Len(store) : SimAt(q, i) <= t) => r.name = "unknown"
           /\ r.name # "unknown" =>
                \E i \in 1..Len(store) :
                    FirstTop(q, i) /\ SimAt(q, i) > t /\ r.name = store[i].name

C17_Witness ==
    /\ match # <<>>
    /\ match[1].mode = "general"
    /\ \E i, j \in 1..Len(store) :
          /\ i < j
          /\ IsTop(match[1].query, i)
          /\ SimAt(match[1].query, j) = SimAt(match[1].query, i)
          /\ match[1].result.name = store[i].name
          /\ match[1].result.confidence > SPEAKER_SIMILARITY_THRESHOLD
    /\ \E k \in 1..Len(store) :
          SimAt(match[1].query, k) = SPEAKER_SIMILARITY_THRESHOLD

InList(n) == \E i \in 1..Len(listed[1]) : listed[1][i] = n

EmbeddingOf(n) == store[CHOOSE i \in 1..Len(store) : store[i].name = n].embedding

\* C20 as stated: once a session for N has committed, identification of audio
\* whose similarity to N's embedding is above the threshold returns N and
\* speakers_list contains N; once N has been removed, identification does
\* not return N and speakers_list omits N, until N is enrolled again.
C20_Original ==
    \A n \in Names :
        /\ ledger[n] = "enrolled" =>
              /\ n \in Enrolled(store)
              /\ listed # <<>> => InList(n)
              /\ (/\ match # <<>>
                  /\ Similarity(match[1].query, EmbeddingOf(n))
                        > Threshold(match[1].mode))
                    => match[1].result.name = n
        /\ ledger[n] = "removed" =>
              /\ match # <<>> => match[1].result.name # n
              /\ listed # <<>> => ~InList(n)

\* C20, amended: once a session for N has committed, speakers_list contains
\* N, and identification returns N for audio whose similarity to N's
\* embedding is above the threshold provided no other stored profile is more
\* similar, or as similar and inserted earlier; once N has been removed,
\* identification does not return N and speakers_list omits N, until N is
\* enrolled again.
C20_EnrollIdentifyRemove ==
    \A n \in Names :
        /\ ledger[n] = "enrolled" =>
              /\ n \in Enrolled(store)
              /\ listed # <<>> => InList(n)
              /\ match # <<>> =>
                    \A i \in 1..Len(store) :
                        (/\ store[i].name = n
                         /\ SimAt(match[1].query, i) > Threshold(match[1].mode)
                         /\ FirstTop(match[1].query, i))
                            => match[1].result.name = n
        /\ ledger[n] # "enrolled" =>
              /\ n \notin Enrolled(store)
              /\ match # <<>> => match[1].result.name # n
              /\ listed # <<>> => ~InList(n)

C20_Witness ==
    /\ match # <<>>
    /\ listed # <<>>
    /\ \E n, m \in Names :
          /\ ledger[n] = "removed"
          /\ ledger[m] = "enrolled"
          /\ match[1].result.name = m
          /\ InList(m)
          /\ Len(store) > 1

---------------------------------------------------------------------------
(* Properties of the enrollment sessions *)

SameSession(s, t) == t.name = s.name /\ t.start = s.start

Written == {store'[i] : i \in 1..Len(store')} \ {store[i] : i \in 1..Len(store)}

\* C11: an enrollment session moves only from Idle to Recording on start,
\* from Recording to Finalizing on complete, from Finalizing to Committed or
\* Failed, and from a non-terminal state to Cancelled on cancel; a session in
\* a terminal state does not change any more (a later start makes a new
\* session), and a SpeakerProfile is written only together with the
\* transition from Finalizing to Committed of a session for its name.
C11_SessionTransitions ==
    [][/\ \A c \in Conns :
            LET s == sessions[c]
                t == sessions'[c]
            IN s # t =>
                 \/ /\ ~Active(s)
                    /\ t.state = "Recording" /\ t.audio = 0 /\ t.start # s.start
                 \/ /\ s.state = "Recording"
                    /\ t = [s EXCEPT !.audio = s.audio + 1]
                 \/ /\ s.state = "Recording"
                    /\ t = [s EXCEPT !.state = "Finalizing"]
                 \/ /\ s.state = "Finalizing"
                    /\ t.state \in {"Committed", "Failed"} /\ SameSession(s, t)
                 \/ /\ ~Terminal(s)
                    /\ t.state = "Cancelled" /\ SameSession(s, t)
       /\ \A p \in Written :
            \E c \in Conns :
                /\ sessions[c].state = "Finalizing"
                /\ sessions'[c].state = "Committed"
                /\ sessions[c].name = p.name
      ]_vars

C11_Witness ==
    \E c, d \in Conns :
        /\ sessions[c].state = "Committed"
        /\ sessions[c].name \in Enrolled(store)
        /\ sessions[d].state \in {"Failed", "Cancelled"}
        /\ sessions[d].start = 0
        /\ sessions[d].name # None

\* C12: a start_enrollment on a connection whose session is Recording is
\* rejected: the session keeps its name, its accumulated audio and its start
\* time, the caller is sent an error, and the connection still has the one
\* active session it had.
C12_DoubleStartRejected ==
    [][\A c \in Conns :
          (/\ sessions[c].state = "Recording"
           /\ \E n \in EnrollNames : StartEnrollment(c, n))
             => /\ sessions'[c] = sessions[c]
                /\ reply'[c].type = "error"
      ]_vars

C12_Witness ==
    \E c \in Conns :
        /\ reply[c].type = "error"
        /\ sessions[c].state = "Recording"
        /\ sessions[c].audio > 0

\* C13: once an enrollment session has been cancelled, by cancel_enrollment
\* or by the close of its connection, while Recording or Finalizing, it is
\* Cancelled with its accumulator discarded, it takes no further chunk, and
\* no embedding is committed for it, also when the cancel arrives after
\* complete and the store write of the session is already under way.
C13_CancelStopsSession ==
    [][\A c \in Conns :
          /\ (sessions[c].state = "Cancelled" \/ ~conn[c].open) =>
                /\ sessions[c].audio = 0
                /\ WriteOf(c, "commit") = {}
                /\ sessions'[c] = sessions[c] \/ sessions'[c].state = "Recording"
                /\ \A p \in Written : \E d \in Conns \ {c} : WriteOf(d, "commit") # {}
          /\ (Active(sessions[c]) /\ (CancelEnrollment(c) \/ Disconnect(c))) =>
                /\ sessions'[c].state = "Cancelled"
                /\ sessions'[c].audio = 0
      ]_vars

C13_Witness ==
    \E c \in Conns :
        /\ sessions[c].state = "Cancelled"
        /\ sessions[c].name # None
        /\ reply[c].type = "enrollment_cancelled"
        /\ sessions[c].name \notin Enrolled(store)
        /\ lock.writers = {}

\* C14: a session whose completion finds the audio empty or too short, or
\* whose extraction fails, becomes Failed: no store write is begun for audio
\* that is too short, the store is unchanged by the failure, the caller is
\* sent enrollment_complete with success false, the connection has no active
\* session afterwards, and a start on it is then accepted.
C14_FailedCompletion ==
    [][\A c \in Conns :
          /\ (sessions[c].state = "Finalizing" /\ sessions[c].audio < MinEnrollChunks) =>
                /\ sessions'[c].state \in {"Finalizing", "Failed", "Cancelled"}
                /\ \A w \in lock'.writers : ~(w.conn = c /\ w.kind = "commit")
          /\ (sessions[c].state = "Finalizing" /\ sessions'[c].state = "Failed") =>
                /\ store' = store
                /\ reply'[c] = [type |-> "enrollment_complete", success |-> FALSE]
                /\ ~Active(sessions'[c])
          /\ (sessions[c].state = "Failed" /\ \E n \in EnrollNames : StartEnrollment(c, n)) =>
                /\ sessions'[c].state = "Recording"
                /\ reply'[c].type = "enrollment_started"
      ]_vars

C14_Witness ==
    \E c \in Conns :
        /\ sessions[c].state = "Failed"
        /\ reply[c] = [type |-> "enrollment_complete", success |-> FALSE]
        /\ sessions[c].name \notin Enrolled(store)
        /\ conn[c].open

\* C19: whatever commits and removals the connections have made, the store
\* holds at most one SpeakerProfile per name, also after a name that is
\* enrolled is committed again and after two connections commit the same
\* name at the same time.
C19_OneProfilePerName ==
    \A i, j \in 1..Len(store) : store[i].name = store[j].name => i = j

C19_Witness ==
    /\ Len(store) = 1
    /\ \A c \in Conns :
          /\ sessions[c].state = "Committed"
          /\ sessions[c].name = store[1].name
    /\ ledger[store[1].name] = "enrolled"

---------------------------------------------------------------------------
(* Properties of the store lock and of the recognition flows *)

ControlMessage(a) ==
    \/ Disconnect(a)
    \/ StopListening(a)
    \/ StartDance(a)
    \/ \E n \in EnrollNames : StartEnrollment(a, n)

\* C16 as stated: a close of connection A, or a start_enrollment, start_dance
\* or stop_listening on A, cancels the recognition calls of A that are
\* outstanding and discards their partial results, so that no CommandEvent
\* is emitted afterwards for the window A had in flight, and changes nothing
\* for any other connection.
C16_Original ==
    [][\A a \in Conns :
          /\ flows[a].interrupted => ~flows[a].emitted
          /\ ControlMessage(a) =>
                /\ flows'[a].phase = "idle"
                /\ a \notin lock'.readers
                /\ \A b \in Conns \ {a} :
                      /\ conn'[b] = conn[b]
                      /\ sessions'[b] = sessions[b]
                      /\ flows'[b] = flows[b]
                      /\ reply'[b] = reply[b]
                      /\ b \in lock'.readers <=> b \in lock.readers
      ]_vars

---------------------------------------------------------------------------
(* Properties of the flow under failures *)

\* C18: no failure inside the processing of a window (a recognition call that
\* fails, a fallback call that times out or errs, no command, an unknown
\* speaker) closes the connection or sends an error message: the fallback
\* failure leaves the neutral ParsedCommand and the flow ready for the next
\* window; an error message is sent only after the store was unavailable, and
\* the connection is closed only after the transport failed.
C18_OnlyStoreAndTransportVisible ==
    /\ errors > 0 => "store" \in faults
    /\ ~connOpen => "transport" \in faults
    /\ llmOutcome \in {"timeout", "error"} =>
          /\ pc = "idle"
          /\ parsed = <<ParsedCommand(None, transcript, 0, 3)>>

C18_Witness ==
    /\ {"identification", "transcription"} \subseteq faults
    /\ llmFailures > 0
    /\ errors = 0
    /\ connOpen
    /\ pc = "join"
    /\ speaker = UnknownMatch

---------------------------------------------------------------------------
(* Properties of the dance recording *)

\* the timer that the latest start_dance scheduled has fired
OwnTimerFired ==
    /\ danceLog.rec > 0
    /\ \A i \in DOMAIN timers : timers[i].rec # danceLog.rec

\* C21: once the recording period of a start_dance that was not cancelled
\* is over, exactly one terminal message, dance_plan or dance_error, was
\* sent for the recording and the page has left its recording state; a
\* recording with only silence or with no audio at all ended in dance_error.
C21_Original ==
    (OwnTimerFired /\ ~danceLog.cancelled) =>
        /\ danceLog.terminals = 1
        /\ ~isRecording
        /\ danceLog.outcome \in {"dance_plan", "dance_error"}

\* C22: processing of a recording starts exactly dance_expected_duration
\* after the start_dance that began it, whatever timers earlier, cancelled
\* recordings of the connection left behind; cancel_dance removes the
\* recording's state.
C22_Original ==
    /\ danceLog.processedAt \in {-1, DanceTicks}
    /\ danceLog.cancelled =>
          (~dance_recording /\ dance_buffers = <<>> /\ dance_age = 0)

\* C24: a dance_recording_progress message is sent for exactly those audio
\* chunks that arrive when int(elapsed) is a multiple of 5 and elapsed > 0,
\* so a 5-second mark gets as many messages as chunks arrive in its second:
\* none, one or several.
C24_ProgressPerChunk ==
    [][ /\ (\E kind \in ChunkKinds : DanceAudio(kind)) =>
            danceLog'.progress =
                IF Seconds(dance_age) % 5 = 0 /\ dance_age > 0
                THEN Append(danceLog.progress, Seconds(dance_age))
                ELSE danceLog.progress
        /\ (danceLog'.progress # danceLog.progress) =>
             \/ \E kind \in ChunkKinds : DanceAudio(kind)
             \/ danceLog'.progress = <<>>
      ]_vars

C24_Witness ==
    /\ dance_recording
    /\ Seconds(dance_age) > 10
    /\ danceLog.progress = <<10, 10>>

---------------------------------------------------------------------------
(* Properties of the dance animation *)

\* C23: after receiveDancePlan with a plan of finite duration and a drawing
\* context, and with animation frames being delivered, the animation stops
\* requesting frames once the elapsed time exceeds the plan's duration, the
\* status then reads 'Dance complete!' and the score is shown; no frame is
\* drawn after the score of the plan was shown.
C23_AnimationEnds ==
    /\ [](~animLog.lateDraw)
    /\ [](animLog.shown > 0 => (statusText = "complete" /\ scoreVisible))
    /\ [](animLog.shown > 0 => perfNow - danceStartTime > dancePlan[1].duration)
    /\ (dancePlan # <<>> /\ ctx) ~> (animLoops = 0 /\ animLog.shown > 0)

C23_Witness ==
    /\ ctx
    /\ dancePlan = <<[duration |-> 12]>>
    /\ animLoops = 0
    /\ animLog.shown = 1
    /\ statusText = "complete"
    /\ scoreVisible

---------------------------------------------------------------------------
(* Properties of the stored embeddings *)

---------------------------------------------------------------------------
(* Properties of the page *)

\* C26: in an enrollment run of the page complete_enrollment is never sent
\* more than once, whatever the interleaving of clicks, interval ticks and
\* server messages (a second startEnrollment called while the first awaits
\* the microphone included), and it carries the name captured at the start.
C26_Original ==
    /\ runLog.completes <= 1
    /\ runLog.completes > 0 => runLog.sentName = runLog.name

\* C27: in an enrollment run the page sends at most one terminating control
\* message: after complete_enrollment was sent, cancelEnrollment sends no
\* cancel_enrollment for that run.
C27_Original == ~(runLog.completes > 0 /\ runLog.cancels > 0)

\* C28: the live-command path sends audio frames only while isListening is
\* true and only after start_listening was sent and before the next
\* stop_listening (by the button or by a disconnect); a startListening
\* whose microphone initialisation fails sends nothing and leaves
\* isListening as it was.
C28_FramesOnlyWhileListening ==
    /\ [](~wireLog.stray)
    /\ [](isListening => wireLog.listen = "start")
    /\ [](wireLog.listen = "stop" => ~isListening)
    /\ [][(\E i \in 1..MaxPending : StartListeningFails(i)) =>
              UNCHANGED <<isListening, wireLog, capture>>]_vars

C28_Witness ==
    /\ isListening
    /\ capture.running
    /\ wireLog.frames = MaxSends
    /\ wireLog.listen = "start"
    /\ socket = "open"

\* C29: whenever isListening is true the capture started by startListening
\* is running and feeds the listening callback; no operation of the
\* EnrollmentManager on the shared audioCapture stops or takes it over.
C29_Original ==
    isListening => (capture.running /\ "listening" \in capture.callbacks)

\* C30: from handleDisconnect until the next handleConnect isListening is
\* false and the Start Listening and Stop Listening buttons are disabled.
C30_Original ==
    socket = "closed" =>
        /\ ~isListening
        /\ listenBtns.start = "disabled"
        /\ listenBtns.stop = "disabled"

\* C31: the enrollment path sends an audio frame only while isEnrolling is
\* true and after the start_enrollment of the run was sent; after
\* cancelEnrollment or handleEnrollmentComplete no enrollment frame is sent
\* until the next run starts.
C31_EnrollmentFramesInRun ==
    /\ [](~runLog.stray)
    /\ [][runLog'.frames > runLog.frames => (isEnrolling /\ runLog.started)]_vars
    /\ [][(ClickCancelEnrollment \/ \E ok \in BOOLEAN : HandleEnrollmentComplete(ok))
              => (~isEnrolling' /\ ~runLog'.started)]_vars

C31_Witness ==
    /\ runLog.frames = MaxSends
    /\ runLog.cancels > 0
    /\ ~isEnrolling
    /\ ~runLog.started

C33_Original ==
    enrollBtns.start = "enabled" =>
        (Trim(nameInput.value) # "" /\ ~isEnrolling)

\* C34: at most one animation loop is scheduled at any time and the score
\* of a received dance_plan is shown exactly once, also when a dance_plan
\* arrives while an earlier dance is still animating.
C34_Original ==
    /\ animLoops <= 1
    /\ animLog.shown <= 1

---------------------------------------------------------------------------
(* Properties of the dance tab *)

\* C37: startRecording without an open socket sends no start_dance, starts
\* no timer and leaves isRecording and both dance buttons as they were;
\* cancelRecording while isRecording is false sends no cancel_dance and
\* changes no state.
C37_GuardedCallsChangeNothing ==
    /\ [][StartRecordingNotConnected =>
              UNCHANGED <<danceVars, danceBtns, animVars>>]_vars
    /\ [][(socket # "open" /\ ~isRecording) =>
              /\ UNCHANGED <<isRecording, danceBtns>>
              /\ danceLog'.rec = danceLog.rec
              /\ Len(timers') <= Len(timers)]_vars
    /\ [][(~isRecording /\ ~isRecording') =>
              /\ danceLog'.cancelled = danceLog.cancelled
              /\ danceBtns' = danceBtns]_vars

C37_Witness ==
    /\ alerted
    /\ socket = "closed"
    /\ ~isRecording
    /\ danceLog.rec > 0
    /\ danceLog.cancelled
    /\ danceBtns = [start |-> "enabled", cancel |-> "disabled"]

---------------------------------------------------------------------------
(* Properties of the command log and of the message handlers *)

\* the entries the log should hold after n commands: the latest first
LatestFirst(n) ==
    [k \in 1..(IF n < LogLimit THEN n ELSE LogLimit) |-> n + 1 - k]

\* C35: after every displayCommand the command log holds at most 50
\* entries, the command received last is its first entry, the entries kept
\* are the most recent ones (the oldest are evicted first), and
\* commandCount is the number of command messages received with a
\* non-empty command, whatever was evicted.
C35_CommandLogBounded ==
    received.all > 0 =>
        /\ Len(Elements(commandLog)) <= LogLimit
        /\ commandLog[1] = received.all
        /\ Elements(commandLog) = LatestFirst(received.all)
        /\ commandCount = received.withCommand

C35_Witness ==
    /\ received.all = MaxMessages
    /\ commandCount = MaxMessages - 1
    /\ Len(Elements(commandLog)) = LogLimit
    /\ commandLog[Len(commandLog)] = MaxMessages - LogLimit + 1

\* C36: a command message whose speaker is the backend's unknown marker,
\* "unknown", never adds an element to activeSpeakers.
C36_Original == "unknown" \notin activeSpeakers

\* C38: once the DanceManager is constructed every message is handled by
\* DisplayManager.handleMessage first and by handleDanceMessage second,
\* once each; no step of the page load removes a handler from onMessage.
C38_BothHandlersInOrder ==
    /\ []("dance" \in Handlers(onMessage) =>
              onMessage = <<"display", "dance">>)
    /\ []((handledBy # <<>> /\ "dance" \in Handlers(onMessage)) =>
              handledBy = <<"display", "dance">>)
    /\ [][Handlers(onMessage) \subseteq Handlers(onMessage')]_vars

C38_Witness ==
    /\ loadPhase = "ready"
    /\ handledBy = <<"display", "dance">>
    /\ received.all > 0
    /\ statusText = "status"

---------------------------------------------------------------------------
(* Properties of the poses and of the score *)

Max(a, b) == IF a < b THEN b ELSE a

\* the fraction q lies between the whole numbers x and y
Between(q, x, y) ==
    /\ q.den > 0
    /\ Min(x, y) * q.den <= q.num
    /\ q.num <= Max(x, y) * q.den

\* C39: for a plan whose keyframes are ordered by time and a time t in
\* [0, duration], every angle of the pose getPoseAtTime returns lies
\* between the angles of two adjacent keyframes that bracket t, and at the
\* exact time of a keyframe the pose is that keyframe's pose.  Stated in
\* its weakest reading, which the stronger ones imply: no angle leaves the
\* range spanned by that angle over the keyframes of the plan.
C39_Original ==
    pose # <<>> =>
        LET t == pose[1].time
            a == pose[1].angles
            kf == dancePlan[1].keyframes
        IN /\ \A f \in AngleNames :
                 \E i, k \in DOMAIN kf :
                     Between(a[f], getPoseAngles(kf[i].pose)[f],
                             getPoseAngles(kf[k].pose)[f])
           /\ \A j \in DOMAIN kf :
                 kf[j].time = t =>
                     \A f \in AngleNames :
                         a[f].num = getPoseAngles(kf[j].pose)[f] * a[f].den

\* C40: for a plan with a duration and at least 3 keyframes showScore
\* displays Creativity and Energy as whole numbers in 0..10, Creativity
\* being the number of distinct pose names of the plan capped at 10.
C40_Original ==
    score # <<>> =>
        /\ score[1].creativity \in 0..10
        /\ score[1].energy \in 0..10
        /\ score[1].creativity = Min(10, Cardinality(PoseNamesOf(dancePlan[1])))

=============================================================================
